---- MODULE Spec2Model ----
(***************************************************************************)
(* Pipeline orchestration engine of the CI/CD dashboard:                   *)
(*   app/services/pipeline_executor.py  (PipelineExecutor)                 *)
(*   app/services/approval_service.py   (ApprovalService)                  *)
(*   app/api/pipelines.py, app/api/approvals.py, app/main.py (handlers)    *)
(*                                                                         *)
(* Storage is one shared table per model class (pipelines, steps,          *)
(* approvals); a row identifier is the row's index in its table.  The      *)
(* background task of a pipeline is a coroutine: its position (pc) only    *)
(* changes at an await, and the code between two awaits is one action.     *)
(* buffer is the replay buffer of the event bus (app/services/             *)
(* event_bus.py); an unfiltered subscriber with replay sees its contents.  *)
(* Step log text is display-only and is left out of the rows.  The code    *)
(* reads no timestamp but Approval.requested_at, so the other timestamp    *)
(* columns hold NULL or the marker of a written value.                     *)
(***************************************************************************)
EXTENDS Integers, Naturals, Sequences, FiniteSets, TLC

VARIABLES pipelines, steps, approvals, running_pipelines, tasks, calls,
          applied, now, buffer, event_counter, subscribers, streams,
          published, cleared_at, github_webhook_secret, webhook_events,
          inflight, delivered, runs, dispatches

\* the state of the event bus next to its buffer: EventBus._event_counter,
\* EventBus._subscribers (subscriber id -> queue), the subscribe() generators
\* with what each has yielded, and for the record every event published and
\* how many had been published when the buffer was last cleared
bus == <<event_counter, subscribers, streams, published, cleared_at>>

\* the webhook endpoint: settings.github_webhook_secret, the rows of
\* webhook_events, the requests to POST /api/v1/webhooks/github being
\* handled or answered, and how many were received
hook == <<github_webhook_secret, webhook_events, inflight, delivered>>

\* the remote repository as GitHubClient sees it: its workflow runs, newest
\* first, and the workflow dispatches it has accepted but not yet turned
\* into a run
remote == <<runs, dispatches>>

vars == <<pipelines, steps, approvals, running_pipelines, tasks, calls,
          applied, now, buffer, bus, hook, remote>>

(* ---------------------------------------------------------------- bounds *)
MaxTasks == 2        \* background tasks created over a run
MaxInflight == 2     \* approve/reject requests in flight at once
MaxTicks == 1        \* clock ticks
MaxApprovals == 2    \* approval rows
MaxEvents == 2       \* events published over a run
MaxHooks == 2        \* requests the webhook endpoint receives over a run
MaxRuns == 4         \* workflow dispatches the remote repository accepts
buffer_size == 1     \* EventBus(buffer_size): capacity of the replay buffer

(* ------------------------------------------------------------- constants *)
approval_timeout_hours == 24
timeout_minutes == 30    \* Step.timeout_minutes, the default every step has
TickHours == 36      \* wall-clock hours that pass in one clock tick

PipelineIds == {"p1"}
MissingPipeline == "p0"
NoTime == "null"     \* a timestamp column holding NULL
Stamp == "set"       \* a timestamp column written with datetime.now(UTC)
NoError == <<>>      \* an error column holding NULL
NoText == ""         \* a text column or optional argument holding None

\* the (user, comment or reason) bodies of approve and reject requests
Bodies == {[user |-> "alice", text |-> NoText], [user |-> "bob", text |-> "lgtm"]}
OneBody == {[user |-> "alice", text |-> "lgtm"]}

(* PipelineStatus, StepStatus, ApprovalStatus *)
PipelineStatus == {"pending", "running", "waiting_approval", "completed",
                   "failed", "aborted"}
StepStatus == {"pending", "running", "completed", "failed", "skipped"}
ApprovalStatus == {"pending", "approved", "rejected"}

Step(name, step_type, requires_approval) ==
    [name |-> name, step_type |-> step_type,
     requires_approval |-> requires_approval]

Stage(name, stepDefs, on_failure) ==
    [name |-> name, steps |-> stepDefs, on_failure |-> on_failure]

PIPELINE_STAGES ==
    << Stage("validate",
             << Step("lint", "workflow", FALSE),
                Step("test", "workflow", FALSE),
                Step("security", "workflow", FALSE),
                Step("docker-build", "workflow", FALSE) >>,
             "abort"),
       Stage("review",
             << Step("create-pr", "action", FALSE),
                Step("wait-ci", "action", FALSE),
                Step("pr-merge", "action", TRUE) >>,
             "notify"),
       Stage("release",
             << Step("create-release", "action", TRUE),
                Step("docker-push", "workflow", FALSE),
                Step("appliance-build", "workflow", FALSE),
                Step("close-issue", "action", FALSE) >>,
             "rollback") >>

(* ------------------------------------------------------------- helpers *)
RECURSIVE FlatDefs(_)
\* the (stage, step definition) pairs in the order the nested loops visit them
FlatDefs(si) ==
    IF si > Len(PIPELINE_STAGES) THEN <<>>
    ELSE [k \in 1..Len(PIPELINE_STAGES[si].steps) |->
             [stage |-> PIPELINE_STAGES[si].name,
              def |-> PIPELINE_STAGES[si].steps[k]]] \o FlatDefs(si + 1)

\* PipelineStep(pipeline_id, name, stage, requires_approval) with column defaults
PipelineStep(p, name, stage, requires_approval) ==
    [pipeline_id |-> p, name |-> name, stage |-> stage, status |-> "pending",
     requires_approval |-> requires_approval, started_at |-> NoTime,
     completed_at |-> NoTime, error |-> NoError]

\* Pipeline(...) with column defaults
Pipeline == [status |-> "pending", completed_at |-> NoTime]

\* Approval(pipeline_id, step_id) with column defaults
Approval(p, s) ==
    [pipeline_id |-> p, step_id |-> s, status |-> "pending",
     requested_at |-> now, responded_at |-> NoTime, responded_by |-> NoText,
     comment |-> NoText]

StepIds == 1..Len(steps)
ApprovalIds == 1..Len(approvals)
TaskIds == 1..Len(tasks)

\* dict.get on a key the payload does not have, and an event id not yet set
None == "None"
NoId == << >>

\* the consumers of the stream, each iterating over one subscribe()
Clients == {"c1", "c2"}

\* the generator of a client that has not subscribed yet
NewStream ==
    [pc |-> "new", pipeline_id |-> None, replay |-> FALSE,
     received |-> << >>, joined |-> 0, disconnected |-> FALSE]

\* a handler that raises writes nothing before its raise: the exception it
\* raises is a function of the rows it read, Ok when it raises none
Ok == <<>>

\* the requests handled at once
Slots == {"r1", "r2"}

\* a slot that holds no request
IdleRequest == [pc |-> "idle"]

\* the state after construction but for the configuration
InitTables ==
    /\ pipelines = << >>
    /\ steps = << >>
    /\ approvals = << >>
    /\ running_pipelines = << >>
    /\ tasks = << >>
    /\ calls = << >>
    /\ applied = << >>
    /\ now = 0
    /\ buffer = << >>
    /\ event_counter = 0
    /\ subscribers = << >>
    /\ streams = [c \in Clients |-> NewStream]
    /\ published = << >>
    /\ cleared_at = 0
    /\ webhook_events = << >>
    /\ inflight = [r \in Slots |-> IdleRequest]
    /\ delivered = 0
    /\ runs = << >>
    /\ dispatches = {}

\* Settings.github_webhook_secret defaults to ""
Init ==
    /\ InitTables
    /\ github_webhook_secret = ""

(* --------------------------------------------------------- main.py *)
\* POST /pipelines: a manually triggered pipeline row in status pending
create_pipeline(p) ==
    /\ p \notin DOMAIN pipelines
    /\ pipelines' = pipelines @@ (p :> Pipeline)
    /\ UNCHANGED <<steps, approvals, running_pipelines, tasks, calls, applied, now, buffer, bus, hook, remote>>

(* ------------------------------------------- PipelineExecutor: handlers *)
\* a variant of the rows below with no step gated (used to test C10)
UngatedPipelineSteps(p) ==
    [i \in 1..Len(FlatDefs(1)) |->
        PipelineStep(p, FlatDefs(1)[i].def.name, FlatDefs(1)[i].stage, FALSE)]
\* the rows db.add()ed by _create_pipeline_steps, in loop order
NewPipelineSteps(p) ==
    [i \in 1..Len(FlatDefs(1)) |->
        PipelineStep(p, FlatDefs(1)[i].def.name, FlatDefs(1)[i].stage,
                     FlatDefs(1)[i].def.requires_approval)]

_create_pipeline_steps(p) == steps \o NewPipelineSteps(p)

\* asyncio.create_task(self._execute_pipeline(pipeline_id)): not yet started
NewTask(p) ==
    [pipeline_id |-> p, pc |-> "init", si |-> 1, ki |-> 1, step |-> 0,
     approval |-> 0, start_time |-> 0, cancelled |-> FALSE]

\* a variant of the test below that lets a running pipeline start (used to
\* test C9)
NotStartableUnlessRunning(status) == status \notin {"pending", "failed", "running"}
\* a status start_pipeline refuses
NotStartable(status) == status \notin {"pending", "failed"}

\* the PipelineExecutorError start_pipeline(p) raises
start_pipeline_raises(p) ==
    IF p \notin DOMAIN pipelines THEN <<"not found">>
    ELSE IF NotStartable(pipelines[p].status)
    THEN <<"cannot be started", pipelines[p].status>>
    ELSE Ok

start_pipeline(p) ==
    IF start_pipeline_raises(p) # Ok
    THEN UNCHANGED vars
    ELSE /\ Len(tasks) < MaxTasks
         /\ steps' = _create_pipeline_steps(p)
         /\ pipelines' = [pipelines EXCEPT ![p].status = "running"]
         /\ tasks' = Append(tasks, NewTask(p))
         /\ running_pipelines' =
                [q \in DOMAIN running_pipelines \cup {p} |->
                    IF q = p THEN Len(tasks) + 1 ELSE running_pipelines[q]]
         /\ UNCHANGED <<approvals, calls, applied, now, buffer, bus, hook, remote>>

\* a variant of the cancellation below that cancels nothing (used to test
\* C12)
CancelNothing(p) == tasks
\* task.cancel() on the registered handle, then del self._running_pipelines[p]
CancelRegistered(p) ==
    IF p \in DOMAIN running_pipelines /\ tasks[running_pipelines[p]].pc # "done"
    THEN [tasks EXCEPT ![running_pipelines[p]].cancelled = TRUE]
    ELSE tasks

Unregister(p) ==
    [q \in DOMAIN running_pipelines \ {p} |-> running_pipelines[q]]

\* the PipelineExecutorError abort_pipeline(p) raises
abort_pipeline_raises(p) ==
    IF p \notin DOMAIN pipelines THEN <<"not found">> ELSE Ok

abort_pipeline(p) ==
    IF abort_pipeline_raises(p) # Ok
    THEN UNCHANGED vars
    ELSE /\ tasks' = CancelRegistered(p)
         /\ running_pipelines' = Unregister(p)
         /\ pipelines' = [pipelines EXCEPT ![p].status = "aborted",
                                           ![p].completed_at = Stamp]
         /\ steps' = [i \in StepIds |->
                         IF /\ steps[i].pipeline_id = p
                            /\ steps[i].status \in {"pending", "running"}
                         THEN [steps[i] EXCEPT !.status = "skipped"]
                         ELSE steps[i]]
         /\ UNCHANGED <<approvals, calls, applied, now, buffer, bus, hook, remote>>

\* get_running_pipelines(): the keys of the task table
get_running_pipelines == DOMAIN running_pipelines

\* a variant of the test below that also lets a skipped step be retried
\* (used to test C11)
retry_step_raises_unless_skipped(p, s) ==
    IF ~(s \in StepIds /\ steps[s].pipeline_id = p) THEN <<"not found">>
    ELSE IF steps[s].status \notin {"failed", "skipped"}
    THEN <<"cannot be retried", steps[s].status>>
    ELSE Ok
\* the PipelineExecutorError retry_step(p, s) raises
retry_step_raises(p, s) ==
    IF ~(s \in StepIds /\ steps[s].pipeline_id = p) THEN <<"not found">>
    ELSE IF steps[s].status # "failed"
    THEN <<"cannot be retried", steps[s].status>>
    ELSE Ok

retry_step(p, s) ==
    IF retry_step_raises(p, s) # Ok
    THEN UNCHANGED vars
    ELSE /\ steps' = [steps EXCEPT ![s].status = "pending",
                                   ![s].error = NoError,
                                   ![s].started_at = NoTime,
                                   ![s].completed_at = NoTime]
         /\ pipelines' =
                IF p \in DOMAIN pipelines /\ pipelines[p].status = "failed"
                THEN [pipelines EXCEPT ![p].status = "running"]
                ELSE pipelines
         /\ UNCHANGED <<approvals, running_pipelines, tasks, calls, applied, now, buffer, bus, hook, remote>>

(* ------------------------------------------------------ ApprovalService *)
\* a variant of the query below that finds nothing (used to test C5)
NoExistingPending(p, s) == {}
\* the rows selected by (pipeline_id, step_id, status == PENDING)
ExistingPending(p, s) ==
    {a \in ApprovalIds : /\ approvals[a].pipeline_id = p
                         /\ approvals[a].step_id = s
                         /\ approvals[a].status = "pending"}

\* which way request_approval(p, s) leaves
RequestOutcome(p, s) ==
    IF p \notin DOMAIN pipelines THEN "pipeline not found"
    ELSE IF s \notin StepIds THEN "step not found"
    ELSE IF Cardinality(ExistingPending(p, s)) > 1 THEN "multiple rows"
    ELSE IF ExistingPending(p, s) # {} THEN "existing"
    ELSE "created"

\* the identifier request_approval(p, s) returns
RequestedApproval(p, s) ==
    IF RequestOutcome(p, s) = "existing"
    THEN CHOOSE a \in ExistingPending(p, s) : TRUE
    ELSE Len(approvals) + 1

\* the writes of request_approval(p, s)
request_approval(p, s) ==
    IF RequestOutcome(p, s) = "created"
    THEN /\ Len(approvals) < MaxApprovals
         /\ approvals' = Append(approvals, Approval(p, s))
         /\ applied' = Append(applied, 0)
         /\ pipelines' = [pipelines EXCEPT ![p].status = "waiting_approval"]
    ELSE UNCHANGED <<approvals, applied, pipelines>>

\* get_pending_approvals(): the rows with status == PENDING (the order of
\* the list is left out)
get_pending_approvals ==
    {a \in ApprovalIds : approvals[a].status = "pending"}

\* a variant of the test below without a deadline (used to test C21)
ExpiredAtOnce(a) == TRUE

\* datetime.now(UTC) > requested_at + timedelta(hours=approval_timeout_hours)
Expired(a) ==
    now * TickHours > approvals[a].requested_at * TickHours + approval_timeout_hours

\* check_timeout(a) returns True
TimesOut(a) ==
    /\ a \in ApprovalIds
    /\ approvals[a].status = "pending"
    /\ Expired(a)

\* the writes of check_timeout(a)
check_timeout(a) ==
    IF TimesOut(a)
    THEN /\ approvals' = [approvals EXCEPT ![a].status = "rejected",
                                           ![a].responded_at = Stamp,
                                           ![a].responded_by = "system",
                                           ![a].comment = "Timed out after 24 hours"]
         /\ pipelines' =
                IF approvals[a].pipeline_id \in DOMAIN pipelines
                THEN [pipelines EXCEPT ![approvals[a].pipeline_id].status = "failed"]
                ELSE pipelines
    ELSE UNCHANGED <<approvals, pipelines>>

(* ---------------------------------- PipelineExecutor: background task *)
CurStage(t) == PIPELINE_STAGES[tasks[t].si]
CurDef(t) == CurStage(t).steps[tasks[t].ki]

\* the loops of _execute_stage / _execute_pipeline move to the next step
\* definition, or leave the last stage towards the completion block
Advance(task) ==
    IF task.ki < Len(PIPELINE_STAGES[task.si].steps)
    THEN [task EXCEPT !.ki = task.ki + 1, !.pc = "fetch", !.step = 0,
                      !.approval = 0]
    ELSE IF task.si < Len(PIPELINE_STAGES)
    THEN [task EXCEPT !.si = task.si + 1, !.ki = 1, !.pc = "fetch",
                      !.step = 0, !.approval = 0]
    ELSE [task EXCEPT !.pc = "complete", !.si = 0, !.ki = 0, !.step = 0,
                      !.approval = 0]

\* a variant of the handler below that re-raises under every policy (used to
\* test C15)
OnStepExceptionRaises(task) ==
    [task EXCEPT !.pc = "fail", !.si = 0, !.ki = 0, !.step = 0, !.approval = 0]
\* a variant of the handler below that swallows the exception under every
\* policy (used to test C14)
OnStepExceptionContinues(task) == Advance(task)
\* except Exception in _execute_stage: abort and rollback re-raise into the
\* handler of _execute_pipeline, notify continues with the next step
OnStepException(task) ==
    IF PIPELINE_STAGES[task.si].on_failure = "notify"
    THEN Advance(task)
    ELSE [task EXCEPT !.pc = "fail", !.si = 0, !.ki = 0, !.step = 0,
                      !.approval = 0]

\* a task that has ended; its locals are gone
Finished(task) ==
    [task EXCEPT !.pc = "done", !.si = 0, !.ki = 0, !.step = 0,
                 !.approval = 0, !.start_time = 0, !.cancelled = FALSE]

\* rows selected by (pipeline_id, name, stage) in _execute_step
MatchingSteps(t) ==
    {i \in StepIds : /\ steps[i].pipeline_id = tasks[t].pipeline_id
                     /\ steps[i].name = CurDef(t).name
                     /\ steps[i].stage = CurStage(t).name}

Runnable(t, pc) ==
    /\ t \in TaskIds
    /\ tasks[t].pc = pc
    /\ ~tasks[t].cancelled

\* first resumption of the coroutine: enters the try block and awaits the
\* first step query
TaskBegin(t) ==
    /\ Runnable(t, "init")
    /\ tasks' = [tasks EXCEPT ![t].pc = "fetch"]
    /\ UNCHANGED <<pipelines, steps, approvals, running_pipelines, calls,
                   applied, now, buffer, bus, hook, remote>>

\* _execute_step up to its first await after the step query
TaskFetch(t) ==
    /\ Runnable(t, "fetch")
    /\ LET rows == MatchingSteps(t) IN
       IF Cardinality(rows) > 1
       THEN \* scalar_one_or_none raises MultipleResultsFound
            /\ tasks' = [tasks EXCEPT ![t] = OnStepException(tasks[t])]
            /\ UNCHANGED steps
       ELSE IF rows = {}
       THEN /\ tasks' = [tasks EXCEPT ![t] = Advance(tasks[t])]
            /\ UNCHANGED steps
       ELSE LET s == CHOOSE i \in rows : TRUE IN
            IF steps[s].status = "completed"
            THEN /\ tasks' = [tasks EXCEPT ![t] = Advance(tasks[t])]
                 /\ UNCHANGED steps
            ELSE IF CurDef(t).requires_approval
            THEN /\ tasks' = [tasks EXCEPT ![t].pc = "request", ![t].step = s]
                 /\ UNCHANGED steps
            ELSE /\ tasks' = [tasks EXCEPT ![t].pc = "body", ![t].step = s]
                 /\ steps' = [steps EXCEPT ![s].status = "running",
                                           ![s].started_at = Stamp]
    /\ UNCHANGED <<pipelines, approvals, running_pipelines, calls, applied,
                   now, buffer, bus, hook, remote>>

\* _wait_for_approval: request_approval and the commit after it
TaskRequest(t) ==
    /\ Runnable(t, "request")
    /\ LET p == tasks[t].pipeline_id
           s == tasks[t].step IN
       IF RequestOutcome(p, s) \in {"existing", "created"}
       THEN /\ request_approval(p, s)
            /\ tasks' = [tasks EXCEPT ![t].pc = "poll_pipeline",
                                      ![t].approval = RequestedApproval(p, s)]
       ELSE /\ tasks' = [tasks EXCEPT ![t] = OnStepException(tasks[t])]
            /\ UNCHANGED <<approvals, applied, pipelines>>
    /\ UNCHANGED <<steps, running_pipelines, calls, now, buffer, bus, hook, remote>>

\* poll loop, first half: re-read the pipeline, raise if it was aborted
TaskPollPipeline(t) ==
    /\ Runnable(t, "poll_pipeline")
    /\ LET p == tasks[t].pipeline_id IN
       IF p \notin DOMAIN pipelines \/ pipelines[p].status = "aborted"
       THEN tasks' = [tasks EXCEPT ![t] = OnStepException(tasks[t])]
       ELSE tasks' = [tasks EXCEPT ![t].pc = "poll_approval"]
    /\ UNCHANGED <<pipelines, steps, approvals, running_pipelines, calls,
                   applied, now, buffer, bus, hook, remote>>

\* a variant of the test below that returns on any answer (used to test C4)
WaitReturnsOnAnswer(status) == status # "pending"
\* the approval status _wait_for_approval returns on
WaitReturns(status) == status = "approved"

\* poll loop, second half: re-read the approval; return on approved (the
\* caller then marks the step running), raise on rejected, else
\* check_timeout and sleep
TaskPollApproval(t) ==
    /\ Runnable(t, "poll_approval")
    /\ LET a == tasks[t].approval
           s == tasks[t].step IN
       IF WaitReturns(approvals[a].status)
       THEN /\ steps' = [steps EXCEPT ![s].status = "running",
                                      ![s].started_at = Stamp]
            /\ tasks' = [tasks EXCEPT ![t].pc = "body"]
            /\ UNCHANGED <<approvals, pipelines>>
       ELSE IF approvals[a].status = "rejected"
       THEN /\ tasks' = [tasks EXCEPT ![t] = OnStepException(tasks[t])]
            /\ UNCHANGED <<approvals, pipelines, steps>>
       ELSE /\ check_timeout(a)
            /\ tasks' = [tasks EXCEPT ![t].pc =
                             IF TimesOut(a) THEN "raise" ELSE "poll_pipeline"]
            /\ UNCHANGED steps
    /\ UNCHANGED <<running_pipelines, calls, applied, now, buffer, bus, hook, remote>>

\* the ways the body of a step can raise: a workflow step fails on a
\* remote-call error, a non-success conclusion or the poll timeout; an
\* action step fails when its remote call fails (wait-ci makes none)
BodyErrors(def) ==
    IF def.step_type = "workflow"
    THEN {<<"remote call failed">>, <<"Workflow failed with conclusion">>,
          <<"Workflow timed out">>}
    ELSE IF def.name = "wait-ci" THEN {}
    ELSE {<<"remote call failed">>}

\* _execute_step after the body returned or raised
TaskBody(t) ==
    /\ Runnable(t, "body")
    /\ LET s == tasks[t].step IN
       \/ /\ steps' = [steps EXCEPT ![s].status = "completed",
                                     ![s].completed_at = Stamp]
          /\ tasks' = [tasks EXCEPT ![t] = Advance(tasks[t])]
       \/ \E e \in BodyErrors(CurDef(t)) :
             /\ steps' = [steps EXCEPT ![s].status = "failed",
                                       ![s].completed_at = Stamp,
                                       ![s].error = e]
             /\ tasks' = [tasks EXCEPT ![t].pc = "raise"]
    /\ UNCHANGED <<pipelines, approvals, running_pipelines, calls, applied,
                   now, buffer, bus, hook, remote>>

\* The body of a workflow step in its own steps, with the clock its poll
\* loop reads.  TaskBody above takes them at once.
\* _execute_workflow_step up to the poll loop: trigger_workflow returns and
\* start_time is read, or the call raises and the step is recorded as failed
TaskTrigger(t) ==
    /\ Runnable(t, "body")
    /\ CurDef(t).step_type = "workflow"
    /\ LET s == tasks[t].step IN
       \/ /\ tasks' = [tasks EXCEPT ![t].pc = "poll_workflow",
                                     ![t].start_time = now]
          /\ UNCHANGED steps
       \/ /\ steps' = [steps EXCEPT ![s].status = "failed",
                                     ![s].completed_at = Stamp,
                                     ![s].error = <<"remote call failed">>]
          /\ tasks' = [tasks EXCEPT ![t].pc = "raise"]
    /\ UNCHANGED <<pipelines, approvals, running_pipelines, calls, applied,
                   now, buffer, bus, hook, remote>>

\* elapsed > timeout in the poll loop of _execute_workflow_step
PollTimedOut(t) ==
    (now - tasks[t].start_time) * TickHours * 60 > timeout_minutes

\* a poll before the timeout that ends the loop: the latest run is completed
\* with conclusion success, or with another conclusion, or list_workflow_runs
\* raises.  A poll that sees no completed run sleeps and changes nothing
TaskPollWorkflow(t) ==
    /\ Runnable(t, "poll_workflow")
    /\ ~PollTimedOut(t)
    /\ LET s == tasks[t].step
           left == [tasks[t] EXCEPT !.start_time = 0] IN
       \/ /\ steps' = [steps EXCEPT ![s].status = "completed",
                                     ![s].completed_at = Stamp]
          /\ tasks' = [tasks EXCEPT ![t] = Advance(left)]
       \/ \E e \in {<<"remote call failed">>,
                     <<"Workflow failed with conclusion">>} :
             /\ steps' = [steps EXCEPT ![s].status = "failed",
                                       ![s].completed_at = Stamp,
                                       ![s].error = e]
             /\ tasks' = [tasks EXCEPT ![t] = [left EXCEPT !.pc = "raise"]]
    /\ UNCHANGED <<pipelines, approvals, running_pipelines, calls, applied,
                   now, buffer, bus, hook, remote>>

\* a variant of the poll below that sleeps on after the timeout (used to
\* test C17)
TaskPollTimeoutSleeps(t) ==
    /\ Runnable(t, "poll_workflow")
    /\ PollTimedOut(t)
    /\ UNCHANGED vars

\* the poll after the timeout: the loop raises and the step is recorded as
\* failed
TaskPollTimeout(t) ==
    /\ Runnable(t, "poll_workflow")
    /\ PollTimedOut(t)
    /\ steps' = [steps EXCEPT ![tasks[t].step].status = "failed",
                              ![tasks[t].step].completed_at = Stamp,
                              ![tasks[t].step].error = <<"Workflow timed out">>]
    /\ tasks' = [tasks EXCEPT ![t].pc = "raise", ![t].start_time = 0]
    /\ UNCHANGED <<pipelines, approvals, running_pipelines, calls, applied,
                   now, buffer, bus, hook, remote>>

\* the body of an action step: one remote call that returns or raises
TaskAction(t) ==
    /\ t \in TaskIds
    /\ tasks[t].pc = "body"
    /\ CurDef(t).step_type = "action"
    /\ TaskBody(t)

\* the raise that follows the commit of a failed step or of a timeout
TaskRaise(t) ==
    /\ Runnable(t, "raise")
    /\ tasks' = [tasks EXCEPT ![t] = OnStepException(tasks[t])]
    /\ UNCHANGED <<pipelines, steps, approvals, running_pipelines, calls,
                   applied, now, buffer, bus, hook, remote>>

\* except Exception in _execute_pipeline
TaskFail(t) ==
    /\ Runnable(t, "fail")
    /\ LET p == tasks[t].pipeline_id IN
       pipelines' = IF p \in DOMAIN pipelines
                    THEN [pipelines EXCEPT ![p].status = "failed"]
                    ELSE pipelines
    /\ tasks' = [tasks EXCEPT ![t].pc = "finally"]
    /\ UNCHANGED <<steps, approvals, running_pipelines, calls, applied,
                   now, buffer, bus, hook, remote>>

\* the block after the stage loop in _execute_pipeline
TaskComplete(t) ==
    /\ Runnable(t, "complete")
    /\ LET p == tasks[t].pipeline_id IN
       pipelines' = IF p \in DOMAIN pipelines
                    THEN [pipelines EXCEPT ![p].status = "completed",
                                           ![p].completed_at = Stamp]
                    ELSE pipelines
    /\ tasks' = [tasks EXCEPT ![t].pc = "finally"]
    /\ UNCHANGED <<steps, approvals, running_pipelines, calls, applied,
                   now, buffer, bus, hook, remote>>

\* finally in _execute_pipeline
TaskFinally(t) ==
    /\ Runnable(t, "finally")
    /\ running_pipelines' = Unregister(tasks[t].pipeline_id)
    /\ tasks' = [tasks EXCEPT ![t] = Finished(tasks[t])]
    /\ UNCHANGED <<pipelines, steps, approvals, calls, applied, now, buffer, bus, hook, remote>>

\* CancelledError delivered at the await the task is suspended in: it passes
\* every except Exception, is re-raised by _execute_pipeline and runs the
\* finally block; a task cancelled before its first resumption never
\* enters the try block
TaskCancelled(t) ==
    /\ t \in TaskIds
    /\ tasks[t].cancelled
    /\ tasks[t].pc # "done"
    /\ running_pipelines' = IF tasks[t].pc = "init" THEN running_pipelines
                            ELSE Unregister(tasks[t].pipeline_id)
    /\ tasks' = [tasks EXCEPT ![t] = Finished(tasks[t])]
    /\ UNCHANGED <<pipelines, steps, approvals, calls, applied, now, buffer, bus, hook, remote>>

\* the steps of tasks that are not cancelled
TaskRuns ==
    \/ \E t \in TaskIds : TaskBegin(t)
    \/ \E t \in TaskIds : TaskFetch(t)
    \/ \E t \in TaskIds : TaskRequest(t)
    \/ \E t \in TaskIds : TaskPollPipeline(t)
    \/ \E t \in TaskIds : TaskPollApproval(t)
    \/ \E t \in TaskIds : TaskBody(t)
    \/ \E t \in TaskIds : TaskRaise(t)
    \/ \E t \in TaskIds : TaskFail(t)
    \/ \E t \in TaskIds : TaskComplete(t)
    \/ \E t \in TaskIds : TaskFinally(t)

\* every step a background task can take
TaskSteps ==
    \/ TaskRuns
    \/ \E t \in TaskIds : TaskCancelled(t)

(* ------------------------------------------- api/approvals.py requests *)
\* every request runs on its own database session: the SELECT of approve /
\* reject loads the approval as it is stored at that moment, and the status
\* check and the writes after it work on that loaded row
Call(op, a, user, text) ==
    [op |-> op, approval |-> a, user |-> user, text |-> text,
     seen |-> IF a \in ApprovalIds THEN approvals[a].status ELSE "missing"]

RemoveAt(seq, i) == SubSeq(seq, 1, i - 1) \o SubSeq(seq, i + 1, Len(seq))

\* a variant of the test below that lets an approved row through (used to
\* test C20)
respond_raises_unless_approved(c) ==
    IF c.seen = "missing" THEN <<"not found">>
    ELSE IF c.seen \notin {"pending", "approved"} THEN <<"not pending", c.seen>>
    ELSE Ok

\* the ApprovalError approve and reject raise on the row their query loaded
respond_raises(c) ==
    IF c.seen = "missing" THEN <<"not found">>
    ELSE IF c.seen # "pending" THEN <<"not pending", c.seen>>
    ELSE Ok

\* a variant of approve below that leaves the pipeline as it is (used to
\* test C18)
approve_only_answers(c) ==
    /\ IF respond_raises(c) # Ok
       THEN UNCHANGED <<approvals, applied>>
       ELSE /\ approvals' = [approvals EXCEPT ![c.approval].status = "approved",
                                              ![c.approval].responded_at = Stamp,
                                              ![c.approval].responded_by = c.user,
                                              ![c.approval].comment = c.text]
            /\ applied' = [applied EXCEPT ![c.approval] = @ + 1]
    /\ UNCHANGED <<pipelines, steps, running_pipelines, tasks, now, buffer, bus, hook, remote>>

\* ApprovalService.approve after the approval query returned row c.seen,
\* and the commit of the request
approve(c) ==
    LET a == c.approval IN
    /\ IF respond_raises(c) # Ok
       THEN UNCHANGED <<approvals, pipelines, applied>>
       ELSE /\ approvals' = [approvals EXCEPT ![a].status = "approved",
                                              ![a].responded_at = Stamp,
                                              ![a].responded_by = c.user,
                                              ![a].comment = c.text]
            /\ pipelines' =
                   IF approvals[a].pipeline_id \in DOMAIN pipelines
                   THEN [pipelines EXCEPT
                            ![approvals[a].pipeline_id].status = "running"]
                   ELSE pipelines
            /\ applied' = [applied EXCEPT ![a] = @ + 1]
    /\ UNCHANGED <<steps, running_pipelines, tasks, now, buffer, bus, hook, remote>>

\* a variant of reject below that leaves the step as it is (used to test
\* C19)
reject_spares_step(c) ==
    /\ IF respond_raises(c) # Ok
       THEN UNCHANGED <<approvals, pipelines, applied>>
       ELSE /\ approvals' = [approvals EXCEPT ![c.approval].status = "rejected",
                                              ![c.approval].responded_at = Stamp,
                                              ![c.approval].responded_by = c.user,
                                              ![c.approval].comment = c.text]
            /\ pipelines' =
                   IF approvals[c.approval].pipeline_id \in DOMAIN pipelines
                   THEN [pipelines EXCEPT
                            ![approvals[c.approval].pipeline_id].status = "failed"]
                   ELSE pipelines
            /\ applied' = [applied EXCEPT ![c.approval] = @ + 1]
    /\ UNCHANGED <<steps, running_pipelines, tasks, now, buffer, bus, hook, remote>>

\* ApprovalService.reject after the approval query returned row c.seen,
\* and the commit of the request
reject(c) ==
    LET a == c.approval IN
    /\ IF respond_raises(c) # Ok
       THEN UNCHANGED <<approvals, pipelines, steps, applied>>
       ELSE /\ approvals' = [approvals EXCEPT ![a].status = "rejected",
                                              ![a].responded_at = Stamp,
                                              ![a].responded_by = c.user,
                                              ![a].comment = c.text]
            /\ pipelines' =
                   IF approvals[a].pipeline_id \in DOMAIN pipelines
                   THEN [pipelines EXCEPT
                            ![approvals[a].pipeline_id].status = "failed"]
                   ELSE pipelines
            /\ steps' =
                   IF approvals[a].step_id \in StepIds
                   THEN [steps EXCEPT
                            ![approvals[a].step_id].status = "failed",
                            ![approvals[a].step_id].error =
                                <<"Rejected by", c.user,
                                  IF c.text = NoText THEN "No reason provided"
                                  ELSE c.text>>]
                   ELSE steps
            /\ applied' = [applied EXCEPT ![a] = @ + 1]
    /\ UNCHANGED <<running_pipelines, tasks, now, buffer, bus, hook, remote>>

\* POST /approvals/{id}/approve served without another request in between
approve_request(a, user, text) ==
    /\ calls = << >>
    /\ approve(Call("approve", a, user, text))
    /\ UNCHANGED calls

\* POST /approvals/{id}/reject served without another request in between
reject_request(a, user, text) ==
    /\ calls = << >>
    /\ reject(Call("reject", a, user, text))
    /\ UNCHANGED calls

\* a request suspended at the await of its approval query
call_select(op, a, user, text) ==
    /\ Len(calls) < MaxInflight
    /\ calls' = Append(calls, Call(op, a, user, text))
    /\ UNCHANGED <<pipelines, steps, approvals, running_pipelines, tasks,
                   applied, now, buffer, bus, hook, remote>>

\* a suspended request resumes with the row its query loaded
call_resume(i) ==
    /\ calls' = RemoveAt(calls, i)
    /\ \/ calls[i].op = "approve" /\ approve(calls[i])
       \/ calls[i].op = "reject" /\ reject(calls[i])

(* ----------------------------------- direct calls of the approval service *)
\* request_approval called from outside the executor
request_approval_call(p, s) ==
    /\ request_approval(p, s)
    /\ UNCHANGED <<steps, running_pipelines, tasks, calls, now, buffer, bus, hook, remote>>

\* check_timeout called from outside the executor
check_timeout_call(a) ==
    /\ check_timeout(a)
    /\ UNCHANGED <<steps, running_pipelines, tasks, calls, applied, now, buffer, bus, hook, remote>>

\* wall-clock time passes; the clock is only ever compared with the
\* requested_at of a pending approval
Tick ==
    /\ now < MaxTicks
    /\ \E a \in ApprovalIds : approvals[a].status = "pending"
    /\ now' = now + 1
    /\ UNCHANGED <<pipelines, steps, approvals, running_pipelines, tasks,
                   calls, applied, buffer, bus, hook, remote>>

(* ------------------------------------- GitHubClient and workflow steps *)
\* Step.workflow of the workflow steps of PIPELINE_STAGES
workflow(name) ==
    CASE name \in {"lint", "test", "security", "docker-build"} -> "ci.yml"
      [] name = "docker-push" -> "docker-build.yml"
      [] name = "appliance-build" -> "appliance-build.yml"
      [] OTHER -> None

\* a workflow_dispatch the remote accepted for step row s
Dispatch(wf, s) == [workflow |-> wf, by |-> s]

\* the run the remote creates for a dispatch
WorkflowRun(d) ==
    [workflow |-> d.workflow, by |-> d.by, status |-> "queued",
     conclusion |-> None]

\* list_workflow_runs(repo, workflow, branch, per_page): the newest per_page
\* runs of the workflow, newest first (one repository and one branch)
list_workflow_runs(wf, per_page) ==
    LET found == SelectSeq(runs, LAMBDA r : r.workflow = wf) IN
    SubSeq(found, 1, IF Len(found) < per_page THEN Len(found) ELSE per_page)

\* _execute_workflow_step up to the poll loop: trigger_workflow posts the
\* dispatch and start_time is read, or the call raises and the step is
\* recorded as failed
WorkflowTrigger(t) ==
    /\ Runnable(t, "body")
    /\ CurDef(t).step_type = "workflow"
    /\ LET s == tasks[t].step IN
       \/ /\ Cardinality(dispatches) + Len(runs) < MaxRuns
          /\ dispatches' = dispatches \cup {Dispatch(workflow(CurDef(t).name), s)}
          /\ tasks' = [tasks EXCEPT ![t].pc = "poll_workflow",
                                     ![t].start_time = now]
          /\ UNCHANGED steps
       \/ /\ steps' = [steps EXCEPT ![s].status = "failed",
                                     ![s].completed_at = Stamp,
                                     ![s].error = <<"remote call failed">>]
          /\ tasks' = [tasks EXCEPT ![t].pc = "raise"]
          /\ UNCHANGED dispatches
    /\ UNCHANGED <<pipelines, approvals, running_pipelines, calls, applied,
                   now, buffer, bus, hook, runs>>

\* the remote creates the run of an accepted dispatch
RunCreated(d) ==
    /\ d \in dispatches
    /\ runs' = <<WorkflowRun(d)>> \o runs
    /\ dispatches' = dispatches \ {d}
    /\ UNCHANGED <<pipelines, steps, approvals, running_pipelines, tasks,
                   calls, applied, now, buffer, bus, hook>>

\* a run of the remote ends with a conclusion
RunCompletes(i) ==
    /\ i \in 1..Len(runs)
    /\ runs[i].status # "completed"
    /\ \E c \in {"success", "failure"} :
          runs' = [runs EXCEPT ![i].status = "completed", ![i].conclusion = c]
    /\ UNCHANGED <<pipelines, steps, approvals, running_pipelines, tasks,
                   calls, applied, now, buffer, bus, hook, dispatches>>

\* a poll before the timeout that ends the loop: runs[0] of
\* list_workflow_runs(per_page=5) is completed, with conclusion success or
\* another one.  A poll that finds no run or a run not completed sleeps and
\* changes nothing
WorkflowPoll(t) ==
    /\ Runnable(t, "poll_workflow")
    /\ ~PollTimedOut(t)
    /\ LET s == tasks[t].step
           left == [tasks[t] EXCEPT !.start_time = 0]
           found == list_workflow_runs(workflow(CurDef(t).name), 5) IN
       /\ found # << >>
       /\ found[1].status = "completed"
       /\ IF found[1].conclusion = "success"
          THEN /\ steps' = [steps EXCEPT ![s].status = "completed",
                                          ![s].completed_at = Stamp]
               /\ tasks' = [tasks EXCEPT ![t] = Advance(left)]
          ELSE /\ steps' = [steps EXCEPT
                               ![s].status = "failed",
                               ![s].completed_at = Stamp,
                               ![s].error = <<"Workflow failed with conclusion">>]
               /\ tasks' = [tasks EXCEPT ![t] = [left EXCEPT !.pc = "raise"]]
    /\ UNCHANGED <<pipelines, approvals, running_pipelines, calls, applied,
                   now, buffer, bus, hook, remote>>

(* -------------------------------------------------------------- EventBus *)
\* every event gets the identifier of the first
always_one(n) == <<1>>

\* str(n) for n >= 0: the decimal digits of n
RECURSIVE str(_)
str(n) == IF n < 10 THEN <<n>> ELSE str(n \div 10) \o <<n % 10>>

\* SSEEvent(type=..., data=payload.model_dump()), id not yet assigned
SSEEvent(type, id, pipeline_id, step_id, status) ==
    [type |-> type, id |-> NoId,
     data |-> [id |-> id, pipeline_id |-> pipeline_id, step_id |-> step_id,
               status |-> status]]

\* the events published in the model: a heartbeat, an error, a pipeline
\* event (payload key id) and a step event (payload key pipeline_id) of
\* pipeline x, and an approval event of pipeline y (payload keys id, the
\* approval's, and pipeline_id).  Identifiers are uuid4 strings, so no
\* approval has the identifier of a pipeline
Events ==
    {SSEEvent("heartbeat", None, None, None, None),
     SSEEvent("error", None, None, None, None),
     SSEEvent("pipeline.updated", "x", None, None, "running"),
     SSEEvent("step.started", None, "x", "s", None),
     SSEEvent("approval.requested", "a", "y", "s", None)}

\* the filters subscribers ask for: one pipeline, or none
Filters == {"x", None}

\* a filter that looks at the payload key pipeline_id alone
matches_pipeline_id(event, pipeline_id) ==
    IF pipeline_id = None THEN TRUE
    ELSE IF event.type \in {"heartbeat", "error"} THEN TRUE
    ELSE event.data.pipeline_id = pipeline_id

\* EventBus._matches_filter(event, pipeline_id)
_matches_filter(event, pipeline_id) ==
    IF pipeline_id = None THEN TRUE
    ELSE IF event.type \in {"heartbeat", "error"} THEN TRUE
    ELSE event.data.pipeline_id = pipeline_id \/ event.data.id = pipeline_id

\* EventBus.subscriber_count
subscriber_count == Cardinality(DOMAIN subscribers)

\* a buffer over its capacity loses the event just appended
DropsNewest(appended) ==
    IF Len(appended) > buffer_size
    THEN SubSeq(appended, 1, Len(appended) - 1)
    ELSE appended

\* if len(self._buffer) > self._buffer_size: self._buffer.pop(0)
Capped(appended) ==
    IF Len(appended) > buffer_size THEN Tail(appended) ELSE appended

\* a publish that hands the event to nobody while some registered
\* subscriber has stopped reading
EnqueuedIfAllRead(ev) ==
    IF \E i \in DOMAIN subscribers : streams[i].pc # "get"
    THEN subscribers
    ELSE [i \in DOMAIN subscribers |-> Append(subscribers[i], ev)]

\* a publish that skips the subscribers that were given a replay
EnqueuedUnlessReplayed(ev) ==
    [i \in DOMAIN subscribers |->
        IF streams[i].replay THEN subscribers[i]
        ELSE Append(subscribers[i], ev)]

\* for subscriber_id, queue in self._subscribers.items():
\*     queue.put_nowait(event)
Enqueued(ev) ==
    [i \in DOMAIN subscribers |-> Append(subscribers[i], ev)]

\* EventBus.publish(event): under the lock, which no holder keeps across a
\* suspension; the queues are unbounded, so put_nowait never raises.  Every
\* call is given an SSEEvent of its own, as the publish_* methods make one
publish(event) ==
    LET ev == [event EXCEPT !.id = str(event_counter + 1)]
        appended == Append(buffer, ev) IN
    /\ event_counter' = event_counter + 1
    /\ buffer' = Capped(appended)
    /\ subscribers' = Enqueued(ev)
    /\ published' = Append(published, ev)
    /\ UNCHANGED <<streams, cleared_at>>
    /\ UNCHANGED <<pipelines, steps, approvals, running_pipelines, tasks,
                   calls, applied, now, hook, remote>>

\* a replay that puts nothing on the queue
ReplaysNothing(pipeline_id) == << >>

\* the replay of subscribe(): the buffered events that match the filter
Replayed(pipeline_id) ==
    SelectSeq(buffer, LAMBDA e : _matches_filter(e, pipeline_id))

\* EventBus.subscribe(pipeline_id, replay), first resumption of the
\* generator of client i: the queue is registered and the replay is put on
\* it under the lock.  The subscriber id (a uuid4) is the client's name
subscribe(i, pipeline_id, replay) ==
    /\ streams[i].pc = "new"
    /\ subscribers' = [k \in DOMAIN subscribers \cup {i} |->
                          IF k = i
                          THEN IF replay THEN Replayed(pipeline_id) ELSE << >>
                          ELSE subscribers[k]]
    /\ streams' = [streams EXCEPT ![i] =
                      [pc |-> "get", pipeline_id |-> pipeline_id,
                       replay |-> replay, received |-> << >>,
                       joined |-> Len(published), disconnected |-> FALSE]]
    /\ UNCHANGED <<buffer, event_counter, published, cleared_at>>
    /\ UNCHANGED <<pipelines, steps, approvals, running_pipelines, tasks,
                   calls, applied, now, hook, remote>>

\* the loop of subscribe(): queue.get() returns the oldest queued event,
\* which is yielded to the consumer if it matches the filter.  The consumer
\* event_generator then asks request.is_disconnected() and leaves its loop
\* if the client is gone
stream_get(i) ==
    /\ i \in Clients
    /\ streams[i].pc = "get"
    /\ subscribers[i] # << >>
    /\ LET event == Head(subscribers[i]) IN
       /\ subscribers' = [subscribers EXCEPT ![i] = Tail(@)]
       /\ streams' = IF _matches_filter(event, streams[i].pipeline_id)
                     THEN [streams EXCEPT
                             ![i].received = Append(@, event),
                             ![i].pc = IF streams[i].disconnected
                                       THEN "closing" ELSE "get"]
                     ELSE streams
    /\ UNCHANGED <<buffer, event_counter, published, cleared_at>>
    /\ UNCHANGED <<pipelines, steps, approvals, running_pipelines, tasks,
                   calls, applied, now, hook, remote>>

\* the client of a stream goes away: request.is_disconnected() is true
\* from now on
disconnect(i) ==
    /\ i \in Clients
    /\ streams[i].pc = "get"
    /\ ~streams[i].disconnected
    /\ streams' = [streams EXCEPT ![i].disconnected = TRUE]
    /\ UNCHANGED <<buffer, event_counter, subscribers, published, cleared_at>>
    /\ UNCHANGED <<pipelines, steps, approvals, running_pipelines, tasks,
                   calls, applied, now, hook, remote>>

\* the consumer stops reading: it leaves its async for loop of its own
\* accord, or its task is cancelled; the generator is closed at a later
\* turn of the event loop
stream_stop(i) ==
    /\ i \in Clients
    /\ streams[i].pc = "get"
    /\ streams' = [streams EXCEPT ![i].pc = "closing"]
    /\ UNCHANGED <<buffer, event_counter, subscribers, published, cleared_at>>
    /\ UNCHANGED <<pipelines, steps, approvals, running_pipelines, tasks,
                   calls, applied, now, hook, remote>>

\* finally in subscribe(): the queue is removed under the lock
stream_finally(i) ==
    /\ i \in Clients
    /\ streams[i].pc = "closing"
    /\ subscribers' = [k \in DOMAIN subscribers \ {i} |-> subscribers[k]]
    /\ streams' = [streams EXCEPT ![i].pc = "closed"]
    /\ UNCHANGED <<buffer, event_counter, published, cleared_at>>
    /\ UNCHANGED <<pipelines, steps, approvals, running_pipelines, tasks,
                   calls, applied, now, hook, remote>>

\* EventBus.clear_buffer()
clear_buffer ==
    /\ buffer' = << >>
    /\ cleared_at' = Len(published)
    /\ UNCHANGED <<event_counter, subscribers, streams, published>>
    /\ UNCHANGED <<pipelines, steps, approvals, running_pipelines, tasks,
                   calls, applied, now, hook, remote>>

(* ------------------------------------------------- webhooks: signatures *)
\* the secrets a deployment is configured with: none, or "s"
Secrets == {"", "s"}

\* the raw bodies of the deliveries, named after their payload
Bodies256 == {"ready", "bug", "nolabel", "merged", "unmerged", "workflow",
              "release", "plain-release", "ping"}

\* "sha256=" + hmac.new(secret.encode(), payload, hashlib.sha256).hexdigest()
\* An X-Hub-Signature-256 header is a record: whether the header is there
\* and not empty, its first seven characters, whether all its characters are
\* ASCII, and the key and message its hex digest is the HMAC-SHA256 of
Signed(secret, payload) ==
    [present |-> TRUE, prefix |-> "sha256=", ascii |-> TRUE,
     key |-> secret, msg |-> payload]

\* no header; a digest under another secret; the right digest without
\* "sha256="; "sha256=" followed by a non-ASCII character
NoSignature ==
    [present |-> FALSE, prefix |-> "", ascii |-> TRUE, key |-> "", msg |-> ""]
Forged(payload) == Signed("t", payload)
Bare(payload) == [Signed("s", payload) EXCEPT !.prefix = ""]
NonAscii == [Signed("", "") EXCEPT !.ascii = FALSE]

\* verify_github_signature(payload, signature, secret): "True", "False", or
\* the TypeError hmac.compare_digest raises for a str that is not ASCII
verify_github_signature(payload, signature, secret) ==
    IF ~signature.present \/ signature.prefix # "sha256=" THEN "False"
    ELSE IF ~signature.ascii THEN "TypeError"
    ELSE IF Signed(secret, payload) = signature THEN "True"
    ELSE "False"

(* ---------------------------------------------------- webhooks: payloads *)
\* the characters of a decimal number, for f-strings
Digit(d) == <<"0", "1", "2", "3", "4", "5", "6", "7", "8", "9">>[d + 1]
Decimal(n) == [k \in 1..Len(str(n)) |-> Digit(str(n)[k])]

\* a payload key that is absent (dict.get returns its default) and a key
\* whose value is JSON null
Absent == "absent"
JsonNull == "null"
NoTag == << >>

\* request.json(): label is payload["label"]["name"], merged, number and
\* tag_name are those of payload["pull_request"], payload["issue"] and
\* payload["release"]
Payload(label, merged, number, tag_name) ==
    [label |-> label, merged |-> merged, number |-> number,
     tag_name |-> tag_name]

\* the deliveries GitHub sends, by body: X-GitHub-Event, action, payload
Delivery(body) ==
    CASE body = "ready" ->
           [event_type |-> "issues", action |-> "labeled",
            payload |-> Payload("status:ready", FALSE, 42, NoTag)]
      [] body = "bug" ->
           [event_type |-> "issues", action |-> "labeled",
            payload |-> Payload("type:bug", FALSE, 42, NoTag)]
      [] body = "nolabel" ->
           [event_type |-> "issues", action |-> "labeled",
            payload |-> Payload(JsonNull, FALSE, 42, NoTag)]
      [] body = "merged" ->
           [event_type |-> "pull_request", action |-> "closed",
            payload |-> Payload(Absent, TRUE, 123, NoTag)]
      [] body = "unmerged" ->
           [event_type |-> "pull_request", action |-> "closed",
            payload |-> Payload(Absent, FALSE, 123, NoTag)]
      [] body = "workflow" ->
           [event_type |-> "workflow_run", action |-> "completed",
            payload |-> Payload(Absent, FALSE, 0, NoTag)]
      [] body = "release" ->
           [event_type |-> "release", action |-> "published",
            payload |-> Payload(Absent, FALSE, 0, <<"v", "1">>)]
      [] body = "plain-release" ->
           [event_type |-> "release", action |-> "published",
            payload |-> Payload(Absent, FALSE, 0, <<"1">>)]
      [] OTHER ->
           [event_type |-> "ping", action |-> Absent,
            payload |-> Payload(Absent, FALSE, 0, NoTag)]

\* the X-GitHub-Delivery identifiers
DeliveryIds == {"d1", "d2"}

\* the requests to the endpoint: any delivery with its signature under "s",
\* and the delivery of a status:ready label with every other signature
Requests ==
    {[delivery_id |-> d, body |-> b, signature |-> Signed("s", b)] :
        d \in DeliveryIds, b \in Bodies256}
    \cup {[delivery_id |-> "d1", body |-> "ready", signature |-> g] :
            g \in {NoSignature, Forged("ready"), Bare("ready"), NonAscii,
                   Signed("s", "bug")}}

(* ----------------------------------------------------- WebhookHandler *)
NoVersion == <<None>>

\* the identifiers of the pipelines that webhooks create (uuid4 strings)
HookPipelineIds == <<"h1", "h2", "h3", "h4">>
HookPipelines == {p \in DOMAIN pipelines :
                     \E k \in DOMAIN HookPipelineIds : HookPipelineIds[k] = p}
NewPipelineId == HookPipelineIds[Cardinality(HookPipelines) + 1]

\* Pipeline(repo=..., ref=..., trigger=..., ...) with column defaults
TriggeredPipeline(ref, version, status, trigger) ==
    [status |-> status, completed_at |-> NoTime, ref |-> ref,
     version |-> version, trigger |-> trigger]

\* tag_name.lstrip("v")
RECURSIVE lstrip(_, _)
lstrip(s, c) ==
    IF s # << >> /\ Head(s) = c THEN lstrip(Tail(s), c) ELSE s

\* a table without the unique index on github_delivery_id
no_unique_index(delivery_id) == FALSE

\* the unique index of webhook_events.github_delivery_id refuses the row
UniqueViolation(delivery_id) ==
    \E k \in DOMAIN webhook_events :
       webhook_events[k].github_delivery_id = delivery_id

\* a duplicate check that finds nothing
never_duplicate(delivery_id) == FALSE

\* WebhookHandler.is_duplicate(delivery_id)
is_duplicate(delivery_id) ==
    \E k \in DOMAIN webhook_events :
       webhook_events[k].github_delivery_id = delivery_id

\* WebhookEvent(...) with column defaults
WebhookEvent(delivery_id, event_type, action, payload) ==
    [github_delivery_id |-> delivery_id, event_type |-> event_type,
     action |-> action, payload |-> payload, processed |-> FALSE,
     processed_at |-> NoTime, pipeline_id |-> None, error |-> NoError]

\* what a handler of process_event comes to: the Pipeline rows it adds (none
\* or one), or the exception it raises
Returns(created) == [error |-> NoError, created |-> created]
Raises(exception) == [error |-> <<exception>>, created |-> << >>]

\* _handle_issue_labeled(event)
_handle_issue_labeled(event) ==
    IF event.payload.label = JsonNull THEN Raises("AttributeError")
    ELSE IF event.payload.label # "status:ready" THEN Returns(<< >>)
    ELSE Returns(<<TriggeredPipeline(<<"main">>, NoVersion, "pending",
                                     "issue_labeled")>>)

\* a handler that takes every closed pull request for a merged one
pr_closed_is_merged(event) ==
    Returns(<<TriggeredPipeline(
                 <<"refs/pull/">> \o Decimal(event.payload.number)
                    \o <<"/merge">>,
                 NoVersion, "pending", "pr_merged")>>)

\* _handle_pr_closed(event)
_handle_pr_closed(event) ==
    IF ~event.payload.merged THEN Returns(<< >>)
    ELSE Returns(<<TriggeredPipeline(
                      <<"refs/pull/">> \o Decimal(event.payload.number)
                         \o <<"/merge">>,
                      NoVersion, "pending", "pr_merged")>>)

\* _handle_release_published(event)
_handle_release_published(event) ==
    LET tag_name == event.payload.tag_name IN
    Returns(<<TriggeredPipeline(
                 <<"refs/tags/">> \o tag_name,
                 IF tag_name # << >> /\ Head(tag_name) = "v"
                 THEN lstrip(tag_name, "v") ELSE tag_name,
                 "completed", "release_published")>>)

\* the dispatch of process_event on (event_type, action);
\* _handle_workflow_completed only logs
handle(event) ==
    IF event.event_type = "issues" /\ event.action = "labeled"
    THEN _handle_issue_labeled(event)
    ELSE IF event.event_type = "pull_request" /\ event.action = "closed"
    THEN _handle_pr_closed(event)
    ELSE IF event.event_type = "workflow_run" /\ event.action = "completed"
    THEN Returns(<< >>)
    ELSE IF event.event_type = "release" /\ event.action = "published"
    THEN _handle_release_published(event)
    ELSE Returns(<< >>)

(* ------------------------------------- POST /api/v1/webhooks/github *)
Response(code, status, detail, pipeline_id) ==
    [code |-> code, status |-> status, detail |-> detail,
     pipeline_id |-> pipeline_id]

\* the slot the next request is handled in: the first that is free
FreeSlot ==
    IF inflight["r1"].pc \in {"idle", "done"} THEN "r1" ELSE "r2"

\* what the signature check of receive_github_webhook answers: a response
\* that ends the request, or Ok
checked(req) ==
    IF github_webhook_secret = "" THEN Ok
    ELSE IF ~req.signature.present
    THEN Response(401, None, "Missing signature", None)
    ELSE LET v == verify_github_signature(req.body, req.signature,
                                          github_webhook_secret) IN
         IF v = "TypeError" THEN Response(500, None, "TypeError", None)
         ELSE IF v = "False" THEN Response(401, None, "Invalid signature", None)
         ELSE Ok

\* receive_github_webhook up to handler.is_duplicate: the signature is
\* verified and the body parsed (every body of the model is JSON)
receive_github_webhook(req) ==
    LET r == FreeSlot IN
    /\ inflight[r].pc \in {"idle", "done"}
    /\ delivered < MaxHooks
    /\ delivered' = delivered + 1
    /\ inflight' = [inflight EXCEPT ![r] =
                      IF checked(req) = Ok
                      THEN [pc |-> "is_duplicate", request |-> req]
                      ELSE [pc |-> "done", request |-> req,
                            response |-> checked(req)]]
    /\ UNCHANGED <<github_webhook_secret, webhook_events>>
    /\ UNCHANGED <<pipelines, steps, approvals, running_pipelines, tasks,
                   calls, applied, now, buffer, bus, remote>>

\* await handler.is_duplicate(x_github_delivery)
webhook_is_duplicate(r) ==
    /\ inflight[r].pc = "is_duplicate"
    /\ inflight' = [inflight EXCEPT ![r] =
                      IF is_duplicate(inflight[r].request.delivery_id)
                      THEN [pc |-> "done", request |-> inflight[r].request,
                            response |-> Response(200, "ignored", "duplicate",
                                                  None)]
                      ELSE [pc |-> "store_event",
                            request |-> inflight[r].request]]
    /\ UNCHANGED <<github_webhook_secret, webhook_events, delivered>>
    /\ UNCHANGED <<pipelines, steps, approvals, running_pipelines, tasks,
                   calls, applied, now, buffer, bus, remote>>

\* await handler.store_event(...): the flush fails on the unique index of
\* github_delivery_id if a row with the identifier was stored meanwhile
webhook_store_event(r) ==
    LET req == inflight[r].request
        d == Delivery(req.body) IN
    /\ inflight[r].pc = "store_event"
    /\ IF UniqueViolation(req.delivery_id)
       THEN /\ inflight' = [inflight EXCEPT ![r] =
                              [pc |-> "done", request |-> req,
                               response |-> Response(500, None,
                                                     "IntegrityError", None)]]
            /\ UNCHANGED webhook_events
       ELSE /\ webhook_events' =
                  Append(webhook_events,
                         WebhookEvent(req.delivery_id, d.event_type, d.action,
                                      d.payload))
            /\ inflight' = [inflight EXCEPT ![r] =
                              [pc |-> "process_event", request |-> req,
                               event |-> Len(webhook_events) + 1]]
    /\ UNCHANGED <<github_webhook_secret, delivered>>
    /\ UNCHANGED <<pipelines, steps, approvals, running_pipelines, tasks,
                   calls, applied, now, buffer, bus, remote>>

\* an event marked processed whether or not its handler raised
MarkedAnyway(event, result, id) ==
    [event EXCEPT !.processed = TRUE, !.processed_at = Stamp,
                  !.pipeline_id = id]

\* process_event after the dispatch: the event is marked processed and
\* linked to the pipeline, or, in the except branch, given the error text
Marked(event, result, id) ==
    IF result.error # NoError THEN [event EXCEPT !.error = result.error]
    ELSE [event EXCEPT !.processed = TRUE, !.processed_at = Stamp,
                       !.pipeline_id = id]

\* await handler.process_event(event) and the response
webhook_process_event(r) ==
    LET e == inflight[r].event
        result == handle(webhook_events[e])
        created == result.created
        id == IF Len(created) = 0 THEN None ELSE NewPipelineId IN
    /\ inflight[r].pc = "process_event"
    /\ pipelines' = IF Len(created) = 0 THEN pipelines
                    ELSE pipelines @@ (id :> created[1])
    /\ webhook_events' =
          [webhook_events EXCEPT ![e] = Marked(@, result, id)]
    /\ inflight' = [inflight EXCEPT ![r] =
                      [pc |-> "done", request |-> inflight[r].request,
                       response |-> Response(200, "processed", None, id)]]
    /\ UNCHANGED <<github_webhook_secret, delivered>>
    /\ UNCHANGED <<steps, approvals, running_pipelines, tasks, calls, applied,
                   now, buffer, bus, remote>>

(* ------------------------------------------------------- specifications *)
\* A call its handler refuses leaves every variable as it is (the handler
\* raises before its first write): a stuttering step, which [Next]_vars
\* allows in every state.  Next draws the inputs a handler accepts.
StartInputs ==
    {p \in PipelineIds \cup {MissingPipeline} : start_pipeline_raises(p) = Ok}

AbortInputs ==
    {p \in PipelineIds \cup {MissingPipeline} : abort_pipeline_raises(p) = Ok}

RetryInputs(p) ==
    {s \in 1..(Len(steps) + 1) : retry_step_raises(p, s) = Ok}

\* the approvals an approve or reject request served now is accepted on
RespondInputs ==
    {a \in 1..(Len(approvals) + 1) :
        respond_raises(Call("approve", a, NoText, NoText)) = Ok}

ExecutorApi ==
    \/ \E p \in PipelineIds : create_pipeline(p)
    \/ \E p \in StartInputs : start_pipeline(p)
    \/ \E p \in AbortInputs : abort_pipeline(p)
    \/ \E p \in PipelineIds \cup {MissingPipeline} :
          \E s \in RetryInputs(p) : retry_step(p, s)

\* approve and reject requests, one at a time
ApprovalApi ==
    \/ \E a \in RespondInputs : \E b \in OneBody :
          approve_request(a, b.user, b.text)
    \/ \E a \in RespondInputs : \E b \in OneBody :
          reject_request(a, b.user, b.text)

\* the same with every request body
ApprovalApiBodies ==
    \/ \E a \in RespondInputs : \E b \in Bodies :
          approve_request(a, b.user, b.text)
    \/ \E a \in RespondInputs : \E b \in Bodies :
          reject_request(a, b.user, b.text)

Next ==
    \/ ExecutorApi
    \/ ApprovalApi
    \/ TaskSteps
    \/ Tick

Spec == Init /\ [][Next]_vars

\* the (pipeline, step) pairs on which request_approval writes: a gated row
\* or the first row of the pipeline, with no pending approval
RequestInputs ==
    {ps \in (PipelineIds \cup {MissingPipeline}) \X (1..(Len(steps) + 1)) :
        /\ RequestOutcome(ps[1], ps[2]) = "created"
        /\ steps[ps[2]].requires_approval \/ ps[2] = 1}

\* the operations of the approval service called directly
ServiceCalls ==
    \/ \E ps \in RequestInputs : request_approval_call(ps[1], ps[2])
    \/ \E a \in ApprovalIds : TimesOut(a) /\ check_timeout_call(a)

\* the approval service called directly and through its API on stored
\* pipelines, as its tests do; background tasks are not scheduled
NextSvc ==
    \/ \E p \in PipelineIds : create_pipeline(p)
    \/ \E p \in StartInputs : start_pipeline(p)
    \/ ApprovalApiBodies
    \/ ServiceCalls
    \/ Tick

SpecSvc == Init /\ [][NextSvc]_vars

\* approve and reject requests that overlap: a request is suspended at its
\* approval query while others run
NextRace ==
    \/ \E p \in PipelineIds : create_pipeline(p)
    \/ \E p \in StartInputs : start_pipeline(p)
    \/ \E op \in {"approve", "reject"} : \E a \in ApprovalIds :
          \E b \in OneBody : call_select(op, a, b.user, b.text)
    \/ \E i \in 1..Len(calls) : call_resume(i)
    \/ TaskRuns

SpecRace == Init /\ [][NextRace]_vars

\* wall-clock time passes while something waits for it: a pending approval
\* that has not expired or a workflow poll that has not timed out
Clock ==
    /\ \/ \E a \in ApprovalIds :
             approvals[a].status = "pending" /\ ~Expired(a)
       \/ \E t \in TaskIds :
             tasks[t].pc = "poll_workflow" /\ ~PollTimedOut(t)
    /\ now' = now + 1
    /\ UNCHANGED <<pipelines, steps, approvals, running_pipelines, tasks,
                   calls, applied, buffer, bus, hook, remote>>

\* the steps of tasks with the workflow body in its own steps
TaskRunsLive ==
    \/ \E t \in TaskIds : TaskBegin(t)
    \/ \E t \in TaskIds : TaskFetch(t)
    \/ \E t \in TaskIds : TaskRequest(t)
    \/ \E t \in TaskIds : TaskPollPipeline(t)
    \/ \E t \in TaskIds : TaskPollApproval(t)
    \/ \E t \in TaskIds : TaskTrigger(t)
    \/ \E t \in TaskIds : TaskPollWorkflow(t)
    \/ \E t \in TaskIds : TaskPollTimeout(t)
    \/ \E t \in TaskIds : TaskAction(t)
    \/ \E t \in TaskIds : TaskRaise(t)
    \/ \E t \in TaskIds : TaskFail(t)
    \/ \E t \in TaskIds : TaskComplete(t)
    \/ \E t \in TaskIds : TaskFinally(t)
    \/ \E t \in TaskIds : TaskCancelled(t)

\* start, abort, approve and reject act on tasks and on what tasks read;
\* retry_step writes a step status and the pipeline status, of which a task
\* only reads "completed" and "aborted", neither of which retry_step writes
NextLive ==
    \/ \E p \in PipelineIds : create_pipeline(p)
    \/ \E p \in StartInputs : start_pipeline(p)
    \/ \E p \in AbortInputs : abort_pipeline(p)
    \/ ApprovalApi
    \/ TaskRunsLive
    \/ Clock

\* The event loop resumes every task that can run (each await of a task
\* returns: remote calls return, sleeps end) and time advances.  No
\* fairness is put on TaskPollWorkflow: the remote run need never complete,
\* and no fairness on the API: nobody has to answer an approval
TaskFairness(t) ==
    /\ WF_vars(TaskBegin(t))
    /\ WF_vars(TaskFetch(t))
    /\ WF_vars(TaskRequest(t))
    /\ WF_vars(TaskPollPipeline(t))
    /\ WF_vars(TaskPollApproval(t))
    /\ WF_vars(TaskTrigger(t))
    /\ WF_vars(TaskPollTimeout(t))
    /\ WF_vars(TaskAction(t))
    /\ WF_vars(TaskRaise(t))
    /\ WF_vars(TaskFail(t))
    /\ WF_vars(TaskComplete(t))
    /\ WF_vars(TaskFinally(t))
    /\ WF_vars(TaskCancelled(t))

SpecLive ==
    /\ Init
    /\ [][NextLive]_vars
    /\ WF_vars(Clock)
    /\ \A t \in 1..MaxTasks : TaskFairness(t)

\* the event bus on its own: publishers, subscribers and clear_buffer.
\* A cleared buffer is cleared again only after a publish.  The client that
\* subscribes first is called c1 and picks any filter and replay; the
\* second subscribes with the default arguments of subscribe()
NextBus ==
    \/ \E e \in Events : Len(published) < MaxEvents /\ publish(e)
    \/ \E q \in Filters : \E r \in BOOLEAN : subscribe("c1", q, r)
    \/ streams["c1"].pc # "new" /\ subscribe("c2", None, FALSE)
    \/ \E i \in Clients : stream_get(i)
    \/ \E i \in Clients : stream_stop(i)
    \/ \E i \in Clients : stream_finally(i)
    \/ buffer # << >> /\ clear_buffer

SpecBus == Init /\ [][NextBus]_vars

\* The event loop resumes a subscriber suspended in queue.get() once its
\* queue holds an event, and the consumer asks for the next event after
\* each one it is yielded; nothing obliges anyone to publish, subscribe or
\* stop reading
SpecBusLive ==
    /\ SpecBus
    /\ \A i \in Clients : WF_vars(stream_get(i))

\* the event bus with the clients of GET /api/v1/events/stream, which may
\* go away while event_generator reads for them
NextStream ==
    \/ NextBus
    \/ \E i \in Clients : disconnect(i)

SpecStream == Init /\ [][NextStream]_vars

\* the webhook endpoint, with or without a secret configured, next to the
\* manual creation of pipelines
InitHook ==
    /\ InitTables
    /\ github_webhook_secret \in Secrets

NextHook ==
    \/ \E req \in Requests : receive_github_webhook(req)
    \/ \E r \in Slots : webhook_is_duplicate(r)
    \/ \E r \in Slots : webhook_store_event(r)
    \/ \E r \in Slots : webhook_process_event(r)
    \/ \E p \in PipelineIds : create_pipeline(p)

SpecHook == InitHook /\ [][NextHook]_vars

\* a pipeline run up to its first gated step against the remote repository:
\* the workflow steps dispatch runs and poll them, the remote creates and
\* ends runs on its own, and the clock advances while a poll waits
NextFlow ==
    \/ \E p \in PipelineIds : create_pipeline(p)
    \/ \E p \in StartInputs : start_pipeline(p)
    \/ \E t \in TaskIds : TaskBegin(t)
    \/ \E t \in TaskIds : TaskFetch(t)
    \/ \E t \in TaskIds : WorkflowTrigger(t)
    \/ \E t \in TaskIds : WorkflowPoll(t)
    \/ \E t \in TaskIds : TaskPollTimeout(t)
    \/ \E t \in TaskIds : TaskAction(t)
    \/ \E t \in TaskIds : TaskRaise(t)
    \/ \E t \in TaskIds : TaskFail(t)
    \/ \E t \in TaskIds : TaskFinally(t)
    \/ \E d \in dispatches : RunCreated(d)
    \/ \E i \in 1..Len(runs) : RunCompletes(i)
    \/ Clock

SpecFlow == Init /\ [][NextFlow]_vars

(* ================================================================ claims *)
Live(t) == tasks[t].pc # "done"
LiveTasks(p) == {t \in TaskIds : tasks[t].pipeline_id = p /\ Live(t)}
RowsOf(p) == {i \in StepIds : steps[i].pipeline_id = p}
\* the statuses on which the specification has start refused
RefusedStatus == {"running", "waiting_approval", "completed", "aborted"}

\* C1: at most one background task of a pipeline is live at any time, and
\* the handle registered for the pipeline is that live task
C1_OneLiveTask ==
    \A p \in PipelineIds :
        /\ Cardinality(LiveTasks(p)) <= 1
        /\ p \in DOMAIN running_pipelines => Live(running_pipelines[p])
        /\ LiveTasks(p) # {} /\ p \in DOMAIN running_pipelines
              => running_pipelines[p] \in LiveTasks(p)

\* C2: once a pipeline is aborted, no step of a background task writes its
\* status or any of its steps: it stays aborted with the steps as abort
\* left them
C2_NoWriteAfterAbort ==
    [][\A p \in DOMAIN pipelines :
          (pipelines[p].status = "aborted" /\ TaskSteps)
             => /\ pipelines'[p] = pipelines[p]
                /\ \A i \in RowsOf(p) : steps'[i] = steps[i]]_vars

\* C3: a completed or aborted pipeline never changes status again, and no
\* pipeline ever returns to pending
C3_StatusForward ==
    [][\A p \in DOMAIN pipelines :
          /\ pipelines[p].status \in {"completed", "aborted"}
                => pipelines'[p].status = pipelines[p].status
          /\ pipelines'[p].status = "pending"
                => pipelines[p].status = "pending"]_vars

\* C4: a step that requires approval is marked running only by a task whose
\* requested approval is approved at that moment, and while such a step
\* is running an approved approval for it exists
C4_GatedStepNeedsApproval ==
    [][/\ \A t \in TaskIds :
            (/\ tasks[t].step \in StepIds
             /\ steps[tasks[t].step].requires_approval
             /\ steps[tasks[t].step].status # "running"
             /\ steps'[tasks[t].step].status = "running")
               => /\ tasks[t].approval \in ApprovalIds
                  /\ approvals[tasks[t].approval].status = "approved"
                  /\ approvals[tasks[t].approval].step_id = tasks[t].step
       /\ \A i \in 1..Len(steps') :
            (steps'[i].requires_approval /\ steps'[i].status = "running")
               => \E a \in 1..Len(approvals') :
                      /\ approvals'[a].step_id = i
                      /\ approvals'[a].status = "approved"]_vars

\* C4 witness: a gated step is running
C4_Witness ==
    \E i \in StepIds : steps[i].requires_approval /\ steps[i].status = "running"

\* C5: no two pending approvals share a (pipeline, step) pair, and a
\* request for a pair that has a pending approval returns that approval's
\* identifier and creates nothing
C5_OnePendingPerStep ==
    [][/\ \A a, b \in 1..Len(approvals') :
            (/\ a # b
             /\ approvals'[a].status = "pending"
             /\ approvals'[b].status = "pending"
             /\ approvals'[a].pipeline_id = approvals'[b].pipeline_id)
               => approvals'[a].step_id # approvals'[b].step_id
       /\ \A a \in ApprovalIds :
            LET p == approvals[a].pipeline_id
                s == approvals[a].step_id IN
            approvals[a].status = "pending"
               => /\ RequestedApproval(p, s) = a
                  /\ request_approval_call(p, s) => approvals' = approvals]_vars

\* C5 witness: a pair has a pending approval, which a request for the pair
\* returns, and an approval requested after it exists
C5_Witness ==
    \E a \in ApprovalIds :
        /\ a < Len(approvals)
        /\ approvals[a].status = "pending"
        /\ RequestedApproval(approvals[a].pipeline_id, approvals[a].step_id) = a

\* C6: of the approve and reject requests issued against one approval,
\* exactly one takes effect
C6_OneCallApplies ==
    \A a \in ApprovalIds : applied[a] <= 1

\* C7: the state a successful retry_step leaves a failed pipeline in is one
\* in which start_pipeline is accepted
C7_StartAfterRetry ==
    [][\A p \in DOMAIN pipelines : \A s \in RowsOf(p) :
          (/\ pipelines[p].status = "failed"
           /\ steps[s].status = "failed"
           /\ retry_step(p, s))
             => start_pipeline_raises(p)' = Ok]_vars

\* C8: a pipeline has at most one step row per (stage, step name), however
\* often it was started
C8_OneRowPerStep ==
    \A i, j \in StepIds :
        (/\ steps[i].pipeline_id = steps[j].pipeline_id
         /\ steps[i].stage = steps[j].stage
         /\ steps[i].name = steps[j].name) => i = j

\* C9: start on a missing pipeline or on one that is not pending or failed
\* raises an error and creates no step, changes no status and registers no
\* task
C9_StartRefused ==
    [][\A p \in PipelineIds \cup {MissingPipeline} :
          (\/ p \notin DOMAIN pipelines
           \/ pipelines[p].status \in RefusedStatus)
             => /\ start_pipeline_raises(p) # Ok
                /\ start_pipeline(p)
                      => UNCHANGED <<pipelines, steps, approvals, tasks,
                                     running_pipelines>>]_vars

\* C9 witness: a completed pipeline, on which start raises
C9_Witness ==
    \E p \in DOMAIN pipelines :
        /\ pipelines[p].status = "completed"
        /\ start_pipeline_raises(p) # Ok

\* C10: start on a pending pipeline leaves exactly the eleven pending steps
\* of the stage table (4 validate, 3 review, 4 release; approval required
\* on pr-merge and create-release only), the pipeline running and a
\* registered task that has not run yet
C10_StartCreatesSteps ==
    [][\A p \in DOMAIN pipelines :
          (pipelines[p].status = "pending" /\ start_pipeline(p))
             => LET rows == {i \in 1..Len(steps') : steps'[i].pipeline_id = p}
                    InStage(st) == {i \in rows : steps'[i].stage = st}
                IN /\ Cardinality(rows) = 11
                   /\ Cardinality({<<steps'[i].stage, steps'[i].name>> : i \in rows}) = 11
                   /\ Cardinality(InStage("validate")) = 4
                   /\ Cardinality(InStage("review")) = 3
                   /\ Cardinality(InStage("release")) = 4
                   /\ \A i \in rows :
                         /\ steps'[i].status = "pending"
                         /\ steps'[i].requires_approval
                               <=> steps'[i].name \in {"pr-merge", "create-release"}
                   /\ pipelines'[p].status = "running"
                   /\ p \in DOMAIN running_pipelines'
                   /\ running_pipelines'[p] = Len(tasks')
                   /\ Len(tasks') = Len(tasks) + 1
                   /\ tasks'[Len(tasks')].pipeline_id = p
                   /\ tasks'[Len(tasks')].pc = "init"]_vars

\* C10 witness: the first start of a pending pipeline has returned and its
\* task has not run
C10_Witness ==
    /\ Len(tasks) = 1
    /\ tasks[1].pc = "init"
    /\ Len(steps) = 11
    /\ \A p \in DOMAIN pipelines : pipelines[p].status = "running"

\* C11: retry_step on a step that is missing from the pipeline or is not
\* failed raises, and a step that is not failed is never set back to
\* pending; on a failed step retry_step leaves the step pending with error
\* and both timestamps cleared, every other step as it was, and the pipeline
\* running if it was failed and unchanged otherwise
C11_RetryStep ==
    /\ [](\A p \in PipelineIds \cup {MissingPipeline} :
           \A s \in 1..(Len(steps) + 1) :
              retry_step_raises(p, s) = Ok
                 <=> /\ s \in StepIds
                     /\ steps[s].pipeline_id = p
                     /\ steps[s].status = "failed")
    /\ [][/\ \A p \in PipelineIds \cup {MissingPipeline} :
              retry_step(p, Len(steps) + 1) => UNCHANGED vars
          /\ \A s \in StepIds :
                IF steps[s].status = "failed"
                THEN LET p == steps[s].pipeline_id IN
                     /\ retry_step(MissingPipeline, s) => UNCHANGED vars
                     /\ retry_step(p, s)
                           => /\ Len(steps') = Len(steps)
                              /\ steps'[s] = [steps[s] EXCEPT !.status = "pending",
                                                              !.error = NoError,
                                                              !.started_at = NoTime,
                                                              !.completed_at = NoTime]
                              /\ \A i \in StepIds \ {s} : steps'[i] = steps[i]
                              /\ pipelines'[p].status =
                                    IF pipelines[p].status = "failed" THEN "running"
                                    ELSE pipelines[p].status
                              /\ UNCHANGED <<approvals, tasks, running_pipelines>>
                ELSE steps[s].status # "pending" => steps'[s].status # "pending"]_vars

\* C11 witness: a retried step is pending again in a running pipeline whose
\* tasks have all ended or are ending
C11_Witness ==
    /\ Len(tasks) >= 1
    /\ \A t \in TaskIds : tasks[t].pc \in {"finally", "done"}
    /\ \E s \in StepIds :
          /\ steps[s].status = "pending"
          /\ pipelines[steps[s].pipeline_id].status = "running"
          /\ \E i \in StepIds : i > s /\ steps[i].status = "pending"

\* abort_pipeline(p) would leave the status of p and of each of its steps
\* as they are
AbortChangesNoStatus(p) ==
    /\ abort_pipeline_raises(p) = Ok
    /\ pipelines[p].status = "aborted"
    /\ \A i \in RowsOf(p) : steps[i].status \notin {"pending", "running"}

C13_RunningInOrder ==
    \A p \in DOMAIN pipelines :
       \A i, j \in RowsOf(p) :
          (i < j /\ steps[j].status = "running")
             => steps[i].status \notin {"pending", "running"}

\* the task is on the failure path of a stage whose policy is abort: past
\* the commit of the failed step and before the end of the coroutine
OnAbortPath(t) ==
    \/ tasks[t].pc = "raise" /\ CurStage(t).on_failure = "abort"
    \/ tasks[t].pc \in {"fail", "finally"}

\* C14: when the body of a step fails in a stage whose policy is abort, the
\* task records the step as failed with the error text, then sets the
\* pipeline to failed and ends; from the failure on it writes no step, so
\* no later step is marked running by it and the later steps stay as they were
C14_AbortPolicy ==
    [][\A t \in TaskIds :
          /\ (TaskBody(t) /\ CurStage(t).on_failure = "abort"
                /\ steps'[tasks[t].step].status # "completed")
                => /\ steps'[tasks[t].step].status = "failed"
                   /\ steps'[tasks[t].step].error \in BodyErrors(CurDef(t))
                   /\ steps'[tasks[t].step].error # NoError
                   /\ \A i \in StepIds \ {tasks[t].step} : steps'[i] = steps[i]
                   /\ tasks'[t].pc = "raise"
                   /\ tasks'[t].si = tasks[t].si
          /\ (OnAbortPath(t) /\ tasks'[t].pc # tasks[t].pc)
                => /\ steps' = steps
                   /\ tasks'[t].pc \in {"fail", "finally", "done"}
                   /\ tasks[t].pc = "raise" /\ ~tasks[t].cancelled
                         => tasks'[t].pc = "fail"
                   /\ tasks[t].pc = "fail" /\ ~tasks[t].cancelled
                         => /\ tasks'[t].pc = "finally"
                            /\ pipelines'[tasks[t].pipeline_id].status = "failed"
                   /\ tasks[t].pc = "finally" => tasks'[t].pc = "done"]_vars

\* C14 witness: the first step failed in the validate stage, the pipeline is
\* failed, its only task has ended and every later step is still pending
C14_Witness ==
    /\ Len(tasks) = 1
    /\ tasks[1].pc = "done"
    /\ pipelines[tasks[1].pipeline_id].status = "failed"
    /\ Len(steps) = Len(FlatDefs(1))
    /\ steps[1].status = "failed"
    /\ steps[1].error # NoError
    /\ \A i \in StepIds \ {1} : steps[i].status = "pending"

EventsAbout(types, id) ==
    {k \in DOMAIN buffer :
        /\ buffer[k].type \in types
        /\ IF buffer[k].type \in {"step.started", "step.completed"}
           THEN buffer[k].data.step_id = id
           ELSE buffer[k].data.id = id}
StreamStatus(types, id) ==
    LET ks == EventsAbout(types, id) IN
    IF ks = {} THEN "none"
    ELSE buffer[CHOOSE k \in ks : \A j \in ks : j <= k].data.status

\* no task is live and no request is in flight
Quiescent ==
    /\ \A t \in TaskIds : tasks[t].pc = "done"
    /\ calls = << >>

\* C16: once every task has ended and no request is in flight, the events on
\* the bus give each pipeline, step and approval in a terminal state the
\* status storage holds for it
C16_StreamMatchesStorage ==
    Quiescent =>
       /\ \A p \in DOMAIN pipelines :
             pipelines[p].status \in {"completed", "failed", "aborted"}
                => StreamStatus({"pipeline.updated", "pipeline.completed"}, p)
                      = pipelines[p].status
       /\ \A s \in StepIds :
             steps[s].status \in {"completed", "failed"}
                => StreamStatus({"step.completed"}, s) = steps[s].status
       /\ \A a \in ApprovalIds :
             approvals[a].status \in {"approved", "rejected"}
                => StreamStatus({"approval.resolved"}, a) = approvals[a].status

\* the coroutine of task t has ended
Ended(t) ==
    IF t \in TaskIds THEN tasks[t].pc = "done" ELSE FALSE

\* task t exists and has not ended
Started(t) ==
    IF t \in TaskIds THEN tasks[t].pc # "done" ELSE FALSE

\* task t is before the block of _execute_pipeline that records the outcome
\* and has not been cancelled
Executing(t) ==
    IF t \in TaskIds
    THEN tasks[t].pc \notin {"finally", "done"} /\ ~tasks[t].cancelled
    ELSE FALSE

\* the pipeline of task t is stored in a terminal status
Terminal(t) ==
    IF t \in TaskIds /\ tasks[t].pipeline_id \in DOMAIN pipelines
    THEN pipelines[tasks[t].pipeline_id].status
            \in {"completed", "failed", "aborted"}
    ELSE FALSE

\* C17: every task that was started ends, and the pipeline of a task that is
\* executing reaches completed, failed or aborted, whether or not a remote
\* run ever completes or an approval is ever answered
C17_Terminates ==
    \A t \in 1..MaxTasks :
       /\ Started(t) ~> Ended(t)
       /\ Executing(t) ~> Terminal(t)

\* C17 witness: an approval nobody answered was rejected by the timeout, a
\* workflow poll that saw no completed run ended in a failed step, and the
\* task has ended with its pipeline failed
C17_Witness ==
    /\ Len(tasks) = 1
    /\ Ended(1)
    /\ pipelines[tasks[1].pipeline_id].status = "failed"
    /\ \E a \in ApprovalIds :
          /\ approvals[a].status = "rejected"
          /\ approvals[a].responded_by = "system"
    /\ \E s \in StepIds :
          /\ steps[s].status = "failed"
          /\ steps[s].error = <<"Workflow timed out">>

\* C18: approve on a pending approval leaves it approved with the responder,
\* a response timestamp and the comment, leaves every other approval and
\* every step as it was, and moves the owning pipeline from waiting_approval
\* to running
C18_Approve ==
    [][\A a \in ApprovalIds : \A b \in Bodies :
          (approvals[a].status = "pending" /\ approve_request(a, b.user, b.text))
             => /\ respond_raises(Call("approve", a, b.user, b.text)) = Ok
                /\ approvals' = [approvals EXCEPT ![a].status = "approved",
                                                  ![a].responded_at = Stamp,
                                                  ![a].responded_by = b.user,
                                                  ![a].comment = b.text]
                /\ steps' = steps
                /\ LET p == approvals[a].pipeline_id IN
                   /\ p \in DOMAIN pipelines
                   /\ pipelines[p].status = "waiting_approval"
                         => pipelines'[p].status = "running"
                   /\ pipelines'[p].completed_at = pipelines[p].completed_at]_vars

\* C18 witness: an approval approved by bob with his comment, its pipeline
\* running, no step touched
C18_Witness ==
    \E a \in ApprovalIds :
        /\ approvals[a].status = "approved"
        /\ approvals[a].responded_by = "bob"
        /\ approvals[a].comment = "lgtm"
        /\ approvals[a].responded_at = Stamp
        /\ pipelines[approvals[a].pipeline_id].status = "running"
        /\ steps # << >>
        /\ \A s \in StepIds : steps[s] = [steps[s] EXCEPT !.status = "pending",
                                                          !.error = NoError]

\* C19: reject on a pending approval leaves it rejected with the responder, a
\* response timestamp and the reason, marks the owning pipeline failed and
\* marks the gated step failed with an error text that names the responder;
\* every other approval and step is as it was
C19_Reject ==
    [][\A a \in ApprovalIds : \A b \in Bodies :
          (approvals[a].status = "pending" /\ reject_request(a, b.user, b.text))
             => /\ respond_raises(Call("reject", a, b.user, b.text)) = Ok
                /\ approvals' = [approvals EXCEPT ![a].status = "rejected",
                                                  ![a].responded_at = Stamp,
                                                  ![a].responded_by = b.user,
                                                  ![a].comment = b.text]
                /\ pipelines'[approvals[a].pipeline_id].status = "failed"
                /\ LET s == approvals[a].step_id IN
                   /\ s \in StepIds
                   /\ steps'[s].status = "failed"
                   /\ Len(steps'[s].error) = 3
                   /\ steps'[s].error[1] = "Rejected by"
                   /\ steps'[s].error[2] = b.user
                   /\ steps'[s].error[3] = IF b.text = NoText
                                           THEN "No reason provided" ELSE b.text
                   /\ steps' = [steps EXCEPT ![s].status = "failed",
                                             ![s].error = steps'[s].error]]_vars

\* C19 witness: an approval rejected by alice without a reason, its pipeline
\* failed and its step failed with the error that names her
C19_Witness ==
    \E a \in ApprovalIds :
        /\ approvals[a].status = "rejected"
        /\ approvals[a].responded_by = "alice"
        /\ approvals[a].responded_at = Stamp
        /\ pipelines[approvals[a].pipeline_id].status = "failed"
        /\ steps[approvals[a].step_id].status = "failed"
        /\ steps[approvals[a].step_id].error
              = <<"Rejected by", "alice", "No reason provided">>

\* C20: approve and reject on an approval that is missing or not pending
\* raise an ApprovalError, which names the current status when the row
\* exists, and change nothing
C20_RespondRefused ==
    [][\A a \in 1..(Len(approvals) + 1) : \A b \in Bodies :
          (a \notin ApprovalIds \/ approvals[a].status # "pending")
             => /\ respond_raises(Call("approve", a, b.user, b.text))
                      = IF a \in ApprovalIds
                        THEN <<"not pending", approvals[a].status>>
                        ELSE <<"not found">>
                /\ respond_raises(Call("reject", a, b.user, b.text))
                      = respond_raises(Call("approve", a, b.user, b.text))
                /\ approve_request(a, b.user, b.text) => UNCHANGED vars
                /\ reject_request(a, b.user, b.text) => UNCHANGED vars]_vars

\* C20 witness: an approved and a rejected approval stand with the answers
\* of their first responders
C20_Witness ==
    \E a, r \in ApprovalIds :
        /\ approvals[a].status = "approved"
        /\ approvals[a].responded_by = "alice"
        /\ approvals[r].status = "rejected"
        /\ approvals[r].responded_by = "bob"
        /\ applied[a] = 1
        /\ applied[r] = 1

\* C21: check_timeout(a) returns False and changes nothing unless approval a
\* is pending and older than the configured timeout; on expiry it leaves the
\* approval rejected by "system" and the owning pipeline failed, after which
\* the approval is never pending again, so every later check_timeout(a)
\* returns False and changes nothing
C21_CheckTimeout ==
    [][\A a \in 1..(Len(approvals) + 1) :
          IF /\ a \in ApprovalIds
             /\ approvals[a].status = "pending"
             /\ (now - approvals[a].requested_at) * TickHours
                   > approval_timeout_hours
          THEN /\ TimesOut(a)
               /\ check_timeout_call(a)
                     => /\ approvals' = [approvals EXCEPT
                                           ![a].status = "rejected",
                                           ![a].responded_at = Stamp,
                                           ![a].responded_by = "system",
                                           ![a].comment = "Timed out after 24 hours"]
                        /\ pipelines'[approvals[a].pipeline_id].status = "failed"
                        /\ steps' = steps
                        /\ ~TimesOut(a)'
          ELSE /\ ~TimesOut(a)
               /\ check_timeout_call(a) => UNCHANGED vars
               /\ (a \in ApprovalIds /\ approvals[a].status # "pending")
                     => approvals'[a] = approvals[a]]_vars

\* C21 witness: an approval rejected by the timeout, its pipeline failed
C21_Witness ==
    \E a \in ApprovalIds :
        /\ approvals[a].status = "rejected"
        /\ approvals[a].responded_by = "system"
        /\ approvals[a].responded_at = Stamp
        /\ now > approvals[a].requested_at
        /\ pipelines[approvals[a].pipeline_id].status = "failed"

(* ------------------------------------------------------------------ C22 *)
\* C22: on a fresh bus the k-th published event has sequence identifier
\* str(k), whatever its type and whatever was cleared, subscribed or
\* unsubscribed in between: the counter equals the number of events
\* published, the identifiers increase strictly with the publish order, and
\* no two published events share one.  Buffered, queued and received events
\* carry the identifier they were published with.
RECURSIVE int(_)
int(digits) ==
    IF digits = << >> THEN 0
    ELSE 10 * int(SubSeq(digits, 1, Len(digits) - 1)) + digits[Len(digits)]
Held ==
    {buffer[k] : k \in DOMAIN buffer}
    \cup UNION {{subscribers[i][k] : k \in DOMAIN subscribers[i]} :
                  i \in DOMAIN subscribers}
    \cup UNION {{streams[i].received[k] : k \in DOMAIN streams[i].received} :
                  i \in Clients}
C22_SequenceIds ==
    /\ event_counter = Len(published)
    /\ \A k \in DOMAIN published :
          /\ published[k].id = str(k)
          /\ int(published[k].id) = k
    /\ \A j, k \in DOMAIN published :
          /\ j < k => int(published[j].id) < int(published[k].id)
          /\ j # k => published[j].id # published[k].id
    /\ \A e \in Held : \E k \in DOMAIN published : e = published[k]
C22_Witness ==
    /\ Len(published) >= 2
    /\ published[1].type # published[2].type
    /\ cleared_at >= 1
    /\ cleared_at < Len(published)
    /\ \E i \in Clients : streams[i].pc = "closed"
    /\ \E i \in Clients : streams[i].pc = "get" /\ streams[i].received # << >>

(* ------------------------------------------------------------------ C23 *)
\* C23: the buffer never holds more than buffer_size events, and it holds
\* exactly the last min(n, buffer_size) published events in publish order,
\* n being the number of events published since the buffer was last cleared
\* (all of them on a bus never cleared).
SinceCleared == Len(published) - cleared_at
Feed(i) ==
    streams[i].received
    \o (IF i \in DOMAIN subscribers
        THEN SelectSeq(subscribers[i],
                       LAMBDA e : _matches_filter(e, streams[i].pipeline_id))
        ELSE << >>)
\* the part of the feed published before the subscription, and the rest
FeedBefore(i) == SelectSeq(Feed(i), LAMBDA e : int(e.id) <= streams[i].joined)
FeedAfter(i) == SelectSeq(Feed(i), LAMBDA e : int(e.id) > streams[i].joined)
\* the events published after subscriber i joined that match its filter
MatchingSince(i) ==
    SelectSeq(SubSeq(published, streams[i].joined + 1, Len(published)),
              LAMBDA e : _matches_filter(e, streams[i].pipeline_id))
Increasing(events) ==
    \A j, k \in DOMAIN events : j < k => int(events[j].id) < int(events[k].id)
FeedInOrder(i) ==
    IF streams[i].pc = "new" THEN TRUE
    ELSE /\ Feed(i) = FeedBefore(i) \o FeedAfter(i)
         /\ Increasing(Feed(i))
         /\ ~streams[i].replay => FeedBefore(i) = << >>
         /\ streams[i].pc = "get" => FeedAfter(i) = MatchingSince(i)
Owner(e) ==
    IF e.data.pipeline_id # None THEN e.data.pipeline_id
    ELSE IF e.type \in {"pipeline.created", "pipeline.updated",
                        "pipeline.completed"}
    THEN e.data.id
    ELSE None
InFeed(i, e) == \E k \in DOMAIN Feed(i) : Feed(i)[k] = e
PublishedSince(i) ==
    {published[k] : k \in (streams[i].joined + 1)..Len(published)}
FeedFiltered(i) ==
    IF streams[i].pc = "new" THEN TRUE
    ELSE IF streams[i].pipeline_id = None
    THEN streams[i].pc = "get" => \A e \in PublishedSince(i) : InFeed(i, e)
    ELSE /\ \A k \in DOMAIN Feed(i) :
               Owner(Feed(i)[k]) \in {streams[i].pipeline_id, None}
         /\ streams[i].pc = "get" =>
               \A e \in PublishedSince(i) :
                  (\/ e.type \in {"heartbeat", "error"}
                   \/ Owner(e) = streams[i].pipeline_id) => InFeed(i, e)
\* C25: a subscriber filtered to a pipeline is fed, replayed or live, no
\* event of another pipeline, and while it reads it is fed every heartbeat,
\* every error and every event of its pipeline published since it
\* subscribed; an unfiltered subscriber is fed every event published since
\* it subscribed.
C25_Filter == \A i \in Clients : FeedFiltered(i)
C25_Witness ==
    \E i \in Clients :
       /\ streams[i].pc = "get"
       /\ streams[i].pipeline_id = "x"
       /\ subscribers[i] = << >>
       /\ \E e \in PublishedSince(i) : Owner(e) = "y"
       /\ \E k \in DOMAIN streams[i].received :
             /\ streams[i].received[k].data.id = "x"
             /\ int(streams[i].received[k].id) > streams[i].joined

(* ------------------------------------------------------------------ C26 *)
\* C26: publish can always be called and completes in one step, however
\* many undelivered events the queues hold and whether or not a subscriber
\* has stopped reading; the step puts the event at the end of the buffer
\* and at the end of the queue of every registered subscriber, and changes
\* no queue otherwise.
C26_PublishNeverWaits ==
    /\ [](\A e \in Events :
            Len(published) < MaxEvents => ENABLED (publish(e) /\ vars' # vars))
    /\ [][published' # published =>
            LET ev == published'[Len(published')] IN
            /\ buffer' # << >>
            /\ buffer'[Len(buffer')] = ev
            /\ DOMAIN subscribers' = DOMAIN subscribers
            /\ \A i \in DOMAIN subscribers :
                  subscribers'[i] = Append(subscribers[i], ev)]_vars
C26_Witness ==
    /\ streams["c1"].pc = "closing"
    /\ Len(subscribers["c1"]) = MaxEvents
    /\ streams["c2"].pc = "get"
    /\ streams["c2"].received # << >>
    /\ streams["c2"].received[Len(streams["c2"].received)]
          = published[Len(published)]
    /\ Len(published) = MaxEvents

(* ------------------------------------------------------------------ C27 *)
\* the subscribers that have subscribed and whose finally block has not run
Registered == {i \in Clients : streams[i].pc \in {"get", "closing"}}
\* subscriber i takes an event from its queue
Takes(i) ==
    /\ i \in DOMAIN subscribers
    /\ i \in DOMAIN subscribers'
    /\ subscribers[i] # << >>
    /\ subscribers'[i] = Tail(subscribers[i])
\* C27: the subscriber count is the number of subscribers that have
\* subscribed and not yet unsubscribed, and a subscriber whose client has
\* gone away stops reading at the next event that reaches it, so that its
\* queue is removed within that publish cycle.
C27_ReleasedWithinCycle ==
    /\ [](/\ subscriber_count = Cardinality(Registered)
          /\ DOMAIN subscribers = Registered)
    /\ [][\A i \in Clients :
            (streams[i].pc = "get" /\ streams[i].disconnected /\ Takes(i))
               => streams'[i].pc # "get"]_vars

(* ------------------------------------------------------------------ C28 *)
\* request r takes the step it is at
Steps(r) == inflight'[r] # inflight[r]
\* C28: no two rows of webhook_events have the same delivery identifier and
\* no two the same pipeline, and every pipeline a webhook created is the
\* pipeline of a row; a delivery whose identifier is stored when it is
\* looked up is answered 200 "ignored" and leaves webhook_events and
\* pipelines as they are.
C28_IdempotentIngestion ==
    /\ [](\A j, k \in DOMAIN webhook_events :
            j # k =>
               /\ webhook_events[j].github_delivery_id
                     # webhook_events[k].github_delivery_id
               /\ webhook_events[j].pipeline_id # None
                     => webhook_events[j].pipeline_id
                           # webhook_events[k].pipeline_id)
    /\ [](\A p \in HookPipelines :
            \E k \in DOMAIN webhook_events : webhook_events[k].pipeline_id = p)
    /\ [][\A r \in Slots :
            (/\ inflight[r].pc = "is_duplicate"
             /\ \E k \in DOMAIN webhook_events :
                   webhook_events[k].github_delivery_id
                      = inflight[r].request.delivery_id
             /\ Steps(r))
            => /\ inflight'[r].pc = "done"
               /\ inflight'[r].response
                     = Response(200, "ignored", "duplicate", None)
               /\ webhook_events' = webhook_events
               /\ pipelines' = pipelines]_vars
C28_Witness ==
    \E r \in Slots : \E k \in DOMAIN webhook_events :
       /\ inflight[r].pc = "done"
       /\ inflight[r].response.status = "ignored"
       /\ inflight[r].request.body = "ready"
       /\ webhook_events[k].github_delivery_id = inflight[r].request.delivery_id
       /\ webhook_events[k].pipeline_id # None
       /\ Len(webhook_events) = 1
       /\ Cardinality(HookPipelines) = 1

(* ------------------------------------------------------------------ C29 *)
\* slot r receives a request
Received(r) ==
    /\ inflight[r].pc \in {"idle", "done"}
    /\ delivered' = delivered + 1
    /\ Steps(r)
\* C29: with a secret configured, a request whose signature is missing or
\* is not "sha256=" followed by the HMAC-SHA256 of its body under the secret
\* is answered 401 and changes neither webhook_events nor pipelines, and a
\* request with that signature goes on to the handler; with no secret
\* configured every request goes on to the handler.
C29_SignatureChecked ==
    [][\A r \in Slots :
          Received(r) =>
             LET req == inflight'[r].request IN
             IF /\ github_webhook_secret # ""
                /\ req.signature # Signed(github_webhook_secret, req.body)
             THEN /\ inflight'[r].pc = "done"
                  /\ inflight'[r].response.code = 401
                  /\ webhook_events' = webhook_events
                  /\ pipelines' = pipelines
             ELSE inflight'[r].pc = "is_duplicate"]_vars

(* ------------------------------------------------------------------ C30 *)
\* the pipeline rows a step adds
Added == DOMAIN pipelines' \ DOMAIN pipelines
TheAdded == pipelines'[CHOOSE p \in Added : TRUE]
\* version is tag_name without the "v"s it starts with
ParsedFrom(version, tag_name) ==
    /\ \E n \in 0..Len(tag_name) :
          /\ \A k \in 1..n : tag_name[k] = "v"
          /\ version = SubSeq(tag_name, n + 1, Len(tag_name))
    /\ version = << >> \/ Head(version) # "v"
\* what process_event is to add for an event: a description of the one row,
\* or nothing
Expected(event) ==
    IF /\ event.event_type = "issues" /\ event.action = "labeled"
       /\ event.payload.label = "status:ready"
    THEN "issue_labeled"
    ELSE IF /\ event.event_type = "pull_request" /\ event.action = "closed"
            /\ event.payload.merged
    THEN "pr_merged"
    ELSE IF event.event_type = "release" /\ event.action = "published"
    THEN "release_published"
    ELSE "nothing"
Malformed(event) ==
    /\ event.event_type = "issues"
    /\ event.action = "labeled"
    /\ event.payload.label = JsonNull
\* C31: process_event leaves every other event row alone and either marks
\* its event processed, stamps processed_at and links the pipeline it
\* created and returns (none if it created none), or, when the dispatch
\* raises, records the error text on the event, creates and returns no
\* pipeline and still lets the request end with its 200 response.
C31_ProcessedOrError ==
    [][\A r \in Slots :
          (inflight[r].pc = "process_event" /\ Steps(r)) =>
             LET e == inflight[r].event
                 before == webhook_events[e]
                 after == webhook_events'[e] IN
             /\ Len(webhook_events') = Len(webhook_events)
             /\ \A k \in DOMAIN webhook_events :
                   k # e => webhook_events'[k] = webhook_events[k]
             /\ inflight'[r].pc = "done"
             /\ inflight'[r].response.code = 200
             /\ IF Malformed(before)
                THEN /\ after.error # NoError
                     /\ after = [before EXCEPT !.error = after.error]
                     /\ Added = {}
                     /\ inflight'[r].response.pipeline_id = None
                ELSE /\ after.processed
                     /\ after.processed_at = Stamp
                     /\ after.error = NoError
                     /\ after.pipeline_id = inflight'[r].response.pipeline_id
                     /\ after.pipeline_id = None <=> Added = {}
                     /\ Added # {} => after.pipeline_id \in Added]_vars
C31_Witness ==
    /\ \E k \in DOMAIN webhook_events :
          /\ webhook_events[k].error # NoError
          /\ ~webhook_events[k].processed
          /\ webhook_events[k].pipeline_id = None
    /\ \E k \in DOMAIN webhook_events :
          /\ webhook_events[k].processed
          /\ webhook_events[k].processed_at = Stamp
          /\ webhook_events[k].pipeline_id \in HookPipelines
    /\ \A r \in Slots :
          /\ inflight[r].pc = "done"
          /\ inflight[r].response.status = "processed"

(* ------------------------------------------------------------------ C32 *)
\* C32: a background task writes completed (with the completion timestamp)
\* only from the block after its stage loop, and a completed pipeline that
\* was started has every validate and release step completed: a failed step
\* of a completed pipeline belongs to the review stage.  It holds while
\* approve and reject requests run one at a time (Spec) and is violated when
\* two of them overlap on the approval of create-release (SpecRace).
C32_CompletedAfterAllStages ==
    /\ [](\A p \in PipelineIds :
             (p \in DOMAIN pipelines /\ pipelines[p].status = "completed") =>
                /\ pipelines[p].completed_at = Stamp
                /\ \A s \in RowsOf(p) :
                      /\ steps[s].stage \in {"validate", "release"}
                            => steps[s].status = "completed"
                      /\ steps[s].status = "failed"
                            => steps[s].stage = "review")
    /\ [][\A p \in DOMAIN pipelines :
             (pipelines'[p].status = "completed"
                  /\ pipelines[p].status # "completed") =>
                \E t \in TaskIds : /\ tasks[t].pipeline_id = p
                                   /\ tasks[t].pc = "complete"
                                   /\ tasks'[t].pc = "finally"]_vars

(* ------------------------------------------------------------------ C33 *)
\* pipeline p is failed and holds an approval answered with a rejection (by
\* reject or by check_timeout)
FailedByAnswer(p) ==
    /\ p \in DOMAIN pipelines
    /\ pipelines[p].status = "failed"
    /\ \E a \in ApprovalIds : /\ approvals[a].pipeline_id = p
                              /\ approvals[a].status = "rejected"
\* the step is an accepted start_pipeline(p) or retry_step(p, s)
StartedOrRetried(p) ==
    \/ /\ Len(tasks') = Len(tasks) + 1
       /\ tasks'[Len(tasks')] = NewTask(p)
    \/ \E s \in RowsOf(p) : /\ steps[s].status = "failed"
                             /\ steps'[s].status = "pending"
                             /\ tasks' = tasks
\* C33: a pipeline that reject or an approval timeout marked failed becomes
\* waiting_approval, running or completed only in a step of start_pipeline
\* or retry_step on it; no step of a background task moves it there.
C33_FailedUntilRestart ==
    [][\A p \in PipelineIds :
          (/\ FailedByAnswer(p)
           /\ pipelines'[p].status \in {"waiting_approval", "running",
                                        "completed"})
             => StartedOrRetried(p)]_vars

(* ------------------------------------------------------------------ C34 *)
\* C34: a pipeline stored as running or waiting_approval has a background
\* task registered in the task table: get_running_pipelines lists it.
C34_RunningIsRegistered ==
    \A p \in DOMAIN pipelines :
       pipelines[p].status \in {"running", "waiting_approval"}
          => p \in get_running_pipelines

(* ------------------------------------------------------------------ C35 *)
\* C35: get_pending_approvals lists no approval of a pipeline that is
\* aborted, completed or failed.
C35_NoPendingAfterEnd ==
    \A a \in get_pending_approvals :
       approvals[a].pipeline_id \in DOMAIN pipelines =>
          pipelines[approvals[a].pipeline_id].status
             \notin {"aborted", "completed", "failed"}

(* ------------------------------------------------------------------ C36 *)
\* step row s is the row of a workflow step that a task is executing
WorkflowStepOf(s) ==
    \E t \in TaskIds : /\ tasks[t].pc = "poll_workflow"
                       /\ tasks[t].step = s
\* the run that the dispatch of step row s created has ended with conclusion c
OwnRunEnded(s, c) ==
    \E i \in 1..Len(runs) : /\ runs[i].by = s
                            /\ runs[i].status = "completed"
                            /\ runs[i].conclusion = c
\* C36: a workflow step is marked completed only when the run its own
\* dispatch created has ended with conclusion success, and it is marked
\* failed for a conclusion only when that run ended with another conclusion:
\* the run of an earlier step of the same workflow decides nothing.
C36_OwnRunDecides ==
    [][\A s \in StepIds :
          (WorkflowStepOf(s) /\ steps[s].status = "running") =>
             /\ steps'[s].status = "completed" => OwnRunEnded(s, "success")
             /\ (/\ steps'[s].status = "failed"
                 /\ steps'[s].error = <<"Workflow failed with conclusion">>)
                   => OwnRunEnded(s, "failure")]_vars

(* ------------------------------------------------------------------ C37 *)
\* C37: when a background task ends and leaves its pipeline failed, some
\* step of the pipeline is failed and carries an error text.
C37_FailedHasFailedStep ==
    [][\A t \in TaskIds :
          (/\ tasks[t].pc = "finally"
           /\ tasks'[t].pc = "done"
           /\ tasks[t].pipeline_id \in DOMAIN pipelines
           /\ pipelines'[tasks[t].pipeline_id].status = "failed")
             => \E s \in RowsOf(tasks[t].pipeline_id) :
                   /\ steps'[s].status = "failed"
                   /\ steps'[s].error # NoError]_vars

(* ------------------------------------------------------------------ C38 *)
\* the rows stored for delivery identifier d
StoredFor(d) ==
    {k \in DOMAIN webhook_events : webhook_events[k].github_delivery_id = d}
\* C38: at most one row is stored for a delivery identifier and the
\* webhooks create at most one pipeline per stored row, also when a request
\* reaches store_event with an identifier that was stored after its
\* duplicate check: that request stores nothing, creates no pipeline and
\* ends.
C38_OneRowOnePipeline ==
    /\ [](\A d \in DeliveryIds : Cardinality(StoredFor(d)) <= 1)
    /\ [](Cardinality(HookPipelines) <= Len(webhook_events))
    /\ [][\A r \in Slots :
            (/\ inflight[r].pc = "store_event"
             /\ StoredFor(inflight[r].request.delivery_id) # {}
             /\ Steps(r))
            => /\ inflight'[r].pc = "done"
               /\ inflight'[r].response.code = 500
               /\ webhook_events' = webhook_events
               /\ pipelines' = pipelines]_vars
C38_Witness ==
    \E r, q \in Slots :
       /\ r # q
       /\ inflight[r].pc = "done"
       /\ inflight[q].pc = "done"
       /\ inflight[r].request.delivery_id = inflight[q].request.delivery_id
       /\ inflight[r].response.status = "processed"
       /\ inflight[r].response.pipeline_id \in HookPipelines
       /\ inflight[q].response.detail = "IntegrityError"
       /\ Len(webhook_events) = 1
       /\ Cardinality(HookPipelines) = 1

(* ------------------------------------------------------------------ C39 *)
\* subscriber i has been yielded the k-th published event
Yielded(i, k) ==
    IF k \in DOMAIN published
    THEN \E j \in DOMAIN streams[i].received :
            streams[i].received[j] = published[k]
    ELSE FALSE
\* subscriber i is reading and the k-th published event, which matches its
\* filter, was published after it registered
Owed(i, k) ==
    IF streams[i].pc = "get" /\ k \in (streams[i].joined + 1)..Len(published)
    THEN _matches_filter(published[k], streams[i].pipeline_id)
    ELSE FALSE
\* subscriber i has been yielded every event it is owed
Served(i) == \A k \in 1..MaxEvents : Owed(i, k) => Yielded(i, k)
\* C39: the events a subscriber has been yielded carry strictly increasing
\* sequence identifiers (so none is yielded twice, replayed and live), and
\* every matching event published after the subscriber registered is
\* eventually yielded to it unless it stops reading: again and again the
\* subscriber has been yielded all it is owed.
C39_EachOnceInOrder ==
    /\ [](\A i \in Clients : Increasing(streams[i].received))
    /\ \A i \in Clients : []<>Served(i)
C39_Witness ==
    \E i \in Clients :
       /\ streams[i].replay
       /\ streams[i].pc = "get"
       /\ streams[i].joined >= 1
       /\ subscribers[i] = << >>
       /\ Len(streams[i].received) = MaxEvents
       /\ \A k \in 1..MaxEvents : Yielded(i, k)
       /\ \E k \in 1..MaxEvents : Owed(i, k)

(* ------------------------------------------------------------------ C40 *)
\* C40: a pipeline in status completed or aborted has its completion
\* timestamp set, whether a background task, abort_pipeline or a release
\* event put it there.
C40_EndedHasTimestamp ==
    \A p \in DOMAIN pipelines :
       pipelines[p].status \in {"completed", "aborted"}
          => pipelines[p].completed_at = Stamp
====
